---- MODULE Spec2Model ----
(***************************************************************************)
(* State-machine model of the SpiderWeb payment SDKs:                      *)
(*   src/payment-sdk.js      (JSON-RPC relay variant, lines 1-608, and the *)
(*                            v1.2 variant, lines 614-957)                 *)
(*   src/unnamed/part_000    (v1.0, fixed-token variant)                   *)
(*   src/payment-sdk-eip.js  (EIP-7702 batch-deposit variant)              *)
(*                                                                         *)
(* The module holds several specifications over one set of variables; a    *)
(* specification leaves the variables of the other components unchanged.   *)
(*   SpecRegistry : init() and the EIP-6963 provider registry              *)
(*   SpecConnect  : connect(), the wallet modal and provider selection     *)
(*   SpecPermit   : permit construction, signature interception, relay     *)
(*   SpecPrices   : the USD price cache                                    *)
(*   SpecSelect   : token scan and valuation                               *)
(*   SpecBatch    : the atomic batch deposit                               *)
(***************************************************************************)
EXTENDS Integers, Sequences, FiniteSets, TLC

NULL == "null"

\* No resolver stored in _resolveConnection (null / undefined).
NoResolver == 0

(***************************************************************************)
(* Bounds of the model                                                     *)
(***************************************************************************)
MaxInitCalls == 2
MaxUserEvents == 4
MaxTicks == 2

VARIABLES
    \* ---- init() and the provider registry --------------------------------
    isInitialized,        \* _isInitialized
    initPc,               \* position of each init() call
    announceListeners,    \* listeners registered for eip6963:announceProvider
    requestBroadcasts,    \* eip6963:requestProvider events dispatched
    clickListeners,       \* click listeners attached to the pay button
    payButtonDisabled,    \* payButton.disabled
    modalInjected,        \* #sw-modal-overlay exists in the document
    discoveredProviders,  \* _discoveredProviders: Map in insertion order
    walletList,           \* the buttons rendered in #sw-wallet-list
    renderCount,          \* _renderWalletList runs started by an announcement
    announcedIds,         \* history: rdns of every announcement delivered
    lastAnnounce,         \* history: << >> or <<detail of the latest announcement>>
    \* ---- connection session -----------------------------------------------
    variant,              \* which of the four SDK sources is running
    provider,             \* _provider
    signer,               \* _signer
    currentUserAddress,   \* _currentUserAddress
    resolveConnection,    \* _resolveConnection: the stored resolver
    promises,             \* the promises returned by _connectWallet
    overlayDisplayed,     \* #sw-modal-overlay is displayed
    closeTimers,          \* pending 300 ms timers of _closeWalletModal
    userEvents,           \* clicks made by the user so far (pay, wallet, cancel)
    clicks,               \* the _handlePaymentClick invocations
    sels,                 \* the _handleProviderSelection invocations
    \* ---- permit signing and relay (_signAndSendWithStandardPermit) ---------
    tokenData,            \* the tokenData argument
    usdValue,             \* the usdValue argument (rpc variant)
    clockSec,             \* Math.floor(Date.now() / 1000)
    permitPc,             \* position of the flow
    nonceRead,            \* << >> or <<nonce read from the token>>
    versionResult,        \* what version() answered ("fail": the call failed)
    signArgs,             \* << >> or <<domain, types, permitMessage>>
    sigLog,               \* what _signTypedData did, in order
    walletSig,            \* << >> or <<signature the wallet produced>>
    signResult,           \* << >> or <<signature _signTypedData returned>>
    relayRequests,        \* bodies POSTed to /execute-transfer
    relayResponse,        \* << >> or <<response of the relay endpoint>>
    statusLog,            \* kinds of status shown by the flow, in order
    thrown,               \* << >> or <<message of the error rethrown>>
    \* ---- the USD price cache ----------------------------------------------
    configChainId,        \* _config.chainId
    priceCache,           \* _priceCache: lowercased address -> {price, timestamp}
    clockMs,              \* Date.now()
    ticks,                \* number of clock advances so far
    priceCall,            \* the latest call of _fetchTokenPrices
    earlierCall,          \* a call that started before it and is still awaiting
    \* ---- scan and valuation ------------------------------------------------
    caller,               \* the handler awaiting _executeSend
    sendPc,               \* position of _executeSend
    sendStatus,           \* statuses shown by the attempt, in order
    sendThrown,           \* << >> or <<message of the error _executeSend threw>>
    selPc,                \* position of _findHighestValueToken
    nonZeroBalances,      \* listed tokens that passed the '0x0' filter
    checkReads,           \* << >> or how the probe and reads of each of them ended
    compatibleTokens,     \* tokens that passed the permit probe
    prices,               \* << >> or <<what _fetchTokenPrices returned>>
    consoleLog,           \* kinds of the console.warn / console.error calls of the scan
    selResult,            \* << >> or <<{tokenData, usdValue} returned>>
    \* ---- the atomic batch deposit -----------------------------------------
    batchPc,              \* position of _executeSplit
    tokensWithBalance,    \* listed tokens that passed the '0x0' filter
    ethBalance,           \* getBalance() of the wallet, in gwei
    feeOutcome,           \* << >> or <<how getFeeData ended, estimatedFee>>
    metadataLog,          \* outcomes of the metadata requests so far
    assets,               \* the assets found
    sentCalls,            \* payloads of the wallet_sendCalls requests sent
    depositResponse,      \* << >> or <<how the deposit request was answered>>
    batchStatus,          \* kinds of status shown by the flow, in order
    batchThrown           \* << >> or <<message of the error thrown>>

regVars == <<isInitialized, initPc, announceListeners, requestBroadcasts,
             clickListeners, payButtonDisabled, modalInjected,
             discoveredProviders, walletList, renderCount, announcedIds,
             lastAnnounce>>

connVars == <<variant, provider, signer, currentUserAddress, resolveConnection,
              promises, overlayDisplayed, closeTimers, userEvents, clicks, sels>>

permitVars == <<tokenData, usdValue, clockSec, permitPc, nonceRead, versionResult,
                signArgs, sigLog, walletSig, signResult, relayRequests,
                relayResponse, statusLog, thrown>>

priceVars == <<configChainId, priceCache, clockMs, ticks, priceCall, earlierCall>>

selVars == <<caller, sendPc, sendStatus, sendThrown, selPc, nonZeroBalances, checkReads,
             compatibleTokens, prices, consoleLog, selResult>>

batchVars == <<batchPc, tokensWithBalance, ethBalance, feeOutcome, metadataLog,
               assets, sentCalls, depositResponse, batchStatus, batchThrown>>

vars == <<regVars, connVars, permitVars, priceVars, selVars, batchVars>>

(***************************************************************************)
(* Generic helpers                                                         *)
(***************************************************************************)
Range(s) == {s[i] : i \in 1..Len(s)}

(***************************************************************************)
(* JavaScript Map, kept as a sequence of [key, val] entries in insertion   *)
(* order (Map.prototype.has / get / set / size / forEach)                  *)
(***************************************************************************)
\* A registry that never recognises a known key.
MapHasNever(m, k) == FALSE

MapHas(m, k) == \E i \in 1..Len(m) : m[i].key = k

MapGet(m, k) == (CHOOSE e \in Range(m) : e.key = k).val

MapSet(m, k, v) ==
    IF MapHas(m, k)
    THEN [i \in 1..Len(m) |-> IF m[i].key = k THEN [key |-> k, val |-> v] ELSE m[i]]
    ELSE Append(m, [key |-> k, val |-> v])

MapSize(m) == Len(m)

MapKeys(m) == [i \in 1..Len(m) |-> m[i].key]

(***************************************************************************)
(* init(config)                            src/payment-sdk.js lines 34-95  *)
(***************************************************************************)
ProviderIds == {"io.metamask", "com.coinbase.wallet", "io.rabby"}
ProviderHandles == {"handleA", "handleB"}
ProviderDetails == [rdns : ProviderIds, provider : ProviderHandles]

ConfigOutcomes == {"ok", "httpError", "invalidConfig", "networkError"}

RegistryInit ==
    /\ isInitialized = FALSE
    /\ initPc = [c \in 1..MaxInitCalls |-> "notCalled"]
    /\ announceListeners = 0
    /\ requestBroadcasts = 0
    /\ clickListeners = 0
    /\ payButtonDisabled = FALSE
    /\ modalInjected = FALSE
    /\ discoveredProviders = << >>
    /\ walletList = << >>
    /\ renderCount = 0
    /\ announcedIds = {}
    /\ lastAnnounce = << >>

\* The setup at the end of a successful init(): the click listener, the
\* modal, _setupEip6963Listeners (one more announcement listener, one more
\* discovery-request broadcast) and the flag.
InitSetup(c) ==
    /\ clickListeners' = clickListeners + 1
    /\ modalInjected' = TRUE
    /\ announceListeners' = announceListeners + 1
    /\ requestBroadcasts' = requestBroadcasts + 1
    /\ isInitialized' = TRUE
    /\ initPc' = [initPc EXCEPT ![c] = "initialized"]

\* init(): the guards, then in the rpc variant the fetch of the remote
\* configuration is issued (lines 35-53); the other variants have no await
\* and finish in the same task (lines 645-669, src/payment-sdk-eip.js 35-57).
InitStart(c) ==
    /\ initPc[c] = "notCalled"
    /\ \E paramsOk \in BOOLEAN, ethersLoaded \in BOOLEAN, buttonFound \in BOOLEAN :
          IF isInitialized \/ ~paramsOk \/ (variant # "eip" /\ ~ethersLoaded)
          THEN /\ initPc' = [initPc EXCEPT ![c] = "returned"]
               /\ UNCHANGED <<isInitialized, announceListeners, requestBroadcasts,
                              clickListeners, modalInjected>>
          ELSE IF variant = "rpc"
          THEN /\ initPc' = [initPc EXCEPT ![c] = "awaitConfig"]
               /\ UNCHANGED <<isInitialized, announceListeners, requestBroadcasts,
                              clickListeners, modalInjected>>
          ELSE IF ~buttonFound
          THEN /\ initPc' = [initPc EXCEPT ![c] = "returned"]
               /\ UNCHANGED <<isInitialized, announceListeners, requestBroadcasts,
                              clickListeners, modalInjected>>
          ELSE InitSetup(c)
    /\ UNCHANGED <<payButtonDisabled, discoveredProviders, walletList, renderCount,
                   announcedIds, lastAnnounce>>

\* _renderWalletList: the list shows one button per registry entry.
RenderWalletList(providers) == MapKeys(providers)

\* _setupEip6963Listeners: one more announcement listener, one more
\* discovery-request broadcast.
\* init() after the configuration response: failure disables the button;
\* success attaches the click listener, injects the modal, sets up discovery.
InitConfigResponse(c) ==
    /\ initPc[c] = "awaitConfig"
    /\ \E outcome \in ConfigOutcomes, buttonFound \in BOOLEAN :
          IF outcome # "ok"
          THEN /\ payButtonDisabled' = (payButtonDisabled \/ buttonFound)
               /\ initPc' = [initPc EXCEPT ![c] = "failed"]
               /\ UNCHANGED <<isInitialized, announceListeners, requestBroadcasts,
                              clickListeners, modalInjected>>
          ELSE IF ~buttonFound
          THEN /\ initPc' = [initPc EXCEPT ![c] = "returned"]
               /\ UNCHANGED <<isInitialized, announceListeners, requestBroadcasts,
                              clickListeners, payButtonDisabled, modalInjected>>
          ELSE /\ InitSetup(c)
               /\ UNCHANGED payButtonDisabled
    /\ UNCHANGED <<discoveredProviders, walletList, renderCount, announcedIds,
                   lastAnnounce>>

(***************************************************************************)
(* The announcement listener      src/payment-sdk.js lines 516-525         *)
(***************************************************************************)
\* A listener that stores and renders every announcement it receives.
AnnounceListenerOverwriting(r, detail) ==
    LET m == MapSet(r.map, detail.rdns, detail)
    IN  [map |-> m, list |-> RenderWalletList(m), renders |-> r.renders + 1]

\* One run of the listener on the registry state r = [map, list, renders].
AnnounceListener(r, detail) ==
    IF ~MapHas(r.map, detail.rdns)
    THEN LET m == MapSet(r.map, detail.rdns, detail)
         IN  [map |-> m, list |-> RenderWalletList(m), renders |-> r.renders + 1]
    ELSE r

\* window.dispatchEvent runs every registered listener in turn.
RECURSIVE DispatchAnnounce(_, _, _)
DispatchAnnounce(r, detail, n) ==
    IF n = 0 THEN r
    ELSE DispatchAnnounce(AnnounceListener(r, detail), detail, n - 1)

\* A wallet announces itself (at any time, any number of times, any order).
Announce ==
    /\ announceListeners > 0
    /\ \E detail \in ProviderDetails :
          LET r == DispatchAnnounce([map |-> discoveredProviders,
                                     list |-> walletList,
                                     renders |-> renderCount],
                                    detail, announceListeners)
          IN  /\ discoveredProviders' = r.map
              /\ walletList' = r.list
              /\ renderCount' = r.renders
              /\ announcedIds' = announcedIds \cup {detail.rdns}
              /\ lastAnnounce' = <<detail>>
    /\ UNCHANGED <<isInitialized, initPc, announceListeners, requestBroadcasts,
                   clickListeners, payButtonDisabled, modalInjected>>

RegistryNext ==
    \/ \E c \in 1..MaxInitCalls : InitStart(c)
    \/ \E c \in 1..MaxInitCalls : InitConfigResponse(c)
    \/ Announce

(***************************************************************************)
(* Connection session                                                      *)
(*   "rpc" : src/payment-sdk.js lines 1-608                                *)
(*   "v12" : src/payment-sdk.js lines 614-957                              *)
(*   "v10" : src/unnamed/part_000                                          *)
(*   "eip" : src/payment-sdk-eip.js                                        *)
(***************************************************************************)
Variants == {"rpc", "v12", "v10", "eip"}

NetworkOutcomes == {"match", "mismatch", "throw"}
FlowOutcomes == {"ok", "throw"}

\* The account a wallet exposes (the environment's answer to getAddress).
WalletAddress(rdns) == IF rdns = "io.metamask" THEN "0xA11CE" ELSE "0xB0B"

\* A session on an initialized page before the first click.
ConnInit ==
    /\ provider = NULL
    /\ signer = NULL
    /\ currentUserAddress = NULL
    /\ resolveConnection = NoResolver
    /\ promises = << >>
    /\ overlayDisplayed = FALSE
    /\ closeTimers = 0
    /\ userEvents = 0
    /\ clicks = << >>
    /\ sels = << >>

\* The page after one successful init() and two wallet announcements.
RegistryReady ==
    /\ isInitialized = TRUE
    /\ initPc = [c \in 1..MaxInitCalls |-> IF c = 1 THEN "initialized" ELSE "notCalled"]
    /\ announceListeners = 1
    /\ requestBroadcasts = 1
    /\ clickListeners = 1
    /\ payButtonDisabled = FALSE
    /\ modalInjected = TRUE
    /\ discoveredProviders =
          << [key |-> "io.metamask",
              val |-> [rdns |-> "io.metamask", provider |-> "handleA"]],
             [key |-> "io.rabby",
              val |-> [rdns |-> "io.rabby", provider |-> "handleB"]] >>
    /\ walletList = << "io.metamask", "io.rabby" >>
    /\ renderCount = 2
    /\ announcedIds = {"io.metamask", "io.rabby"}
    /\ lastAnnounce = <<[rdns |-> "io.rabby", provider |-> "handleB"]>>

\* Calling a promise's resolve function: only a pending promise changes.
Resolve(ps, p, v) == IF ps[p] = "pending" THEN [ps EXCEPT ![p] = v] ELSE ps

\* The continuation of _handlePaymentClick after `await this._connectWallet()`.
\* It is a microtask of the task that settled the promise, so it runs before
\* any other event. false: "Wallet connection cancelled." and return. true:
\* rpc and eip return, v1.0 goes on to getNetwork(), v1.2 waits 2 seconds first.
ClickAfterConnect(v, c, ps) ==
    IF c.pc # "awaitConnect" \/ ps[c.promise] = "pending" THEN c
    ELSE IF ps[c.promise] = "false" THEN [c EXCEPT !.pc = "cancelled"]
    ELSE CASE v \in {"rpc", "eip"} -> [c EXCEPT !.pc = "done"]
           [] v = "v10" -> [c EXCEPT !.pc = "awaitNetwork"]
           [] v = "v12" -> [c EXCEPT !.pc = "awaitDelay"]

SettleClicks(v, cs, ps) == [h \in 1..Len(cs) |-> ClickAfterConnect(v, cs[h], ps)]

\* _handlePaymentClick up to its first await. Without a signer it calls
\* _connectWallet, which stores the new promise's resolver and opens the modal.
PayClick ==
    /\ userEvents < MaxUserEvents
    /\ userEvents' = userEvents + 1
    /\ clickListeners > 0
    /\ ~payButtonDisabled
    /\ IF signer = NULL
       THEN /\ promises' = Append(promises, "pending")
            /\ resolveConnection' = Len(promises) + 1
            /\ overlayDisplayed' = TRUE
            /\ walletList' = RenderWalletList(discoveredProviders)
            /\ clicks' = Append(clicks, [pc |-> "awaitConnect",
                                         promise |-> Len(promises) + 1,
                                         verified |-> FALSE])
       ELSE /\ clicks' = Append(clicks, [pc |-> "awaitNetwork", promise |-> NoResolver,
                                         verified |-> FALSE])
            /\ UNCHANGED <<promises, resolveConnection, overlayDisplayed, walletList>>
    /\ UNCHANGED <<variant, provider, signer, currentUserAddress, closeTimers, sels>>
    /\ UNCHANGED <<isInitialized, initPc, announceListeners, requestBroadcasts,
                   clickListeners, payButtonDisabled, modalInjected,
                   discoveredProviders, renderCount, announcedIds, lastAnnounce>>

\* v1.2 only: the 2-second delay after a successful connection has elapsed.
ClickDelayElapsed(h) ==
    /\ clicks[h].pc = "awaitDelay"
    /\ clicks' = [clicks EXCEPT ![h].pc = "awaitNetwork"]
    /\ UNCHANGED <<variant, provider, signer, currentUserAddress, resolveConnection,
                   promises, overlayDisplayed, closeTimers, userEvents, sels>>
    /\ UNCHANGED regVars

\* _handlePaymentClick after getNetwork(): a mismatch is reported, a throw is
\* caught and reported, a match starts the payment flow.  verified records
\* that this handler found the wallet on the configured chain.
ClickNetwork(h) ==
    /\ clicks[h].pc = "awaitNetwork"
    /\ \E net \in NetworkOutcomes :
          clicks' = [clicks EXCEPT ![h].pc =
                        CASE net = "mismatch" -> "switchNetwork"
                          [] net = "throw" -> "error"
                          [] net = "match" -> "executeSend",
                                   ![h].verified = (net = "match")]
    /\ UNCHANGED <<variant, provider, signer, currentUserAddress, resolveConnection,
                   promises, overlayDisplayed, closeTimers, userEvents, sels>>
    /\ UNCHANGED regVars

\* The payment flow awaited by _handlePaymentClick ends; a throw is caught.
ClickFlowEnd(h) ==
    /\ clicks[h].pc = "executeSend"
    /\ \E out \in FlowOutcomes :
          clicks' = [clicks EXCEPT ![h].pc =
                        IF out = "ok" THEN "flowEnded" ELSE "flowError"]
    /\ UNCHANGED <<variant, provider, signer, currentUserAddress, resolveConnection,
                   promises, overlayDisplayed, closeTimers, userEvents, sels>>
    /\ UNCHANGED regVars

\* A click on Cancel or on the overlay: _closeWalletModal starts a 300 ms timer.
CloseModalClick ==
    /\ overlayDisplayed
    /\ userEvents < MaxUserEvents
    /\ userEvents' = userEvents + 1
    /\ closeTimers' = closeTimers + 1
    /\ UNCHANGED <<variant, provider, signer, currentUserAddress, resolveConnection,
                   promises, overlayDisplayed, clicks, sels>>
    /\ UNCHANGED regVars

\* The 300 ms timer of _closeWalletModal fires: the overlay is hidden and, if
\* a resolver is stored and no signer is set, the resolver is called with
\* false (the eip variant then forgets the resolver).
CloseTimerFire ==
    /\ closeTimers > 0
    /\ closeTimers' = closeTimers - 1
    /\ overlayDisplayed' = FALSE
    /\ IF resolveConnection # NoResolver /\ signer = NULL
       THEN /\ promises' = Resolve(promises, resolveConnection, "false")
            /\ resolveConnection' = IF variant = "eip" THEN NoResolver
                                    ELSE resolveConnection
       ELSE UNCHANGED <<promises, resolveConnection>>
    /\ clicks' = SettleClicks(variant, clicks, promises')
    /\ UNCHANGED <<variant, provider, signer, currentUserAddress, userEvents, sels>>
    /\ UNCHANGED regVars

\* A click on a wallet button: _handleProviderSelection up to its first await
\* (the modal is closed, _provider is set, the account request is sent).
\* conn remembers which connect() was waiting when the wallet was chosen.
SelectProvider ==
    /\ overlayDisplayed
    /\ userEvents < MaxUserEvents
    /\ userEvents' = userEvents + 1
    /\ \E rdns \in Range(walletList) :
          /\ MapHas(discoveredProviders, rdns)
          /\ closeTimers' = closeTimers + 1
          /\ provider' = rdns
          /\ sels' = Append(sels, [pc |-> "awaitAccounts", rdns |-> rdns,
                                   conn |-> resolveConnection, verified |-> FALSE])
    /\ UNCHANGED <<variant, signer, currentUserAddress, resolveConnection, promises,
                   overlayDisplayed, clicks>>
    /\ UNCHANGED regVars

\* The catch block of _handleProviderSelection: "Connection failed or was
\* rejected." and, if a resolver is stored, it is called with false.
SelCatch(s) ==
    /\ sels' = [sels EXCEPT ![s].pc = "failed"]
    /\ promises' = IF resolveConnection # NoResolver
                   THEN Resolve(promises, resolveConnection, "false")
                   ELSE promises
    /\ clicks' = SettleClicks(variant, clicks, promises')

\* The wallet answers the account request (eth_requestAccounts; in the eip
\* variant the awaited getSigner()). On success _signer is set.
AccountsResponse(s) ==
    /\ sels[s].pc = "awaitAccounts"
    /\ \E ok \in BOOLEAN :
          IF ok
          THEN /\ signer' = IF variant = "eip" THEN sels[s].rdns ELSE provider
               \* getAddress() is asked of the signer just stored
               /\ sels' = [sels EXCEPT ![s].pc = "awaitAddress", ![s].rdns = signer']
               /\ UNCHANGED <<promises, clicks>>
          ELSE /\ SelCatch(s)
               /\ UNCHANGED signer
    /\ UNCHANGED <<variant, provider, currentUserAddress, resolveConnection,
                   overlayDisplayed, closeTimers, userEvents>>
    /\ UNCHANGED regVars

\* getAddress() answers. On success the address is stored, "Connected" is
\* shown and, if a resolver is stored, it is called with true; the rpc variant
\* then checks the network and the eip variant starts the batch flow.
AddressResponse(s) ==
    /\ sels[s].pc = "awaitAddress"
    /\ \E ok \in BOOLEAN :
          IF ok
          THEN /\ currentUserAddress' = WalletAddress(sels[s].rdns)
               /\ IF resolveConnection # NoResolver
                  THEN /\ promises' = Resolve(promises, resolveConnection, "true")
                       /\ sels' = [sels EXCEPT ![s].pc =
                                     CASE variant = "rpc" -> "awaitNetwork"
                                       [] variant = "eip" -> "executeSend"
                                       [] OTHER -> "connected"]
                  ELSE /\ sels' = [sels EXCEPT ![s].pc = "connected"]
                       /\ UNCHANGED promises
               /\ clicks' = SettleClicks(variant, clicks, promises')
          ELSE /\ SelCatch(s)
               /\ UNCHANGED currentUserAddress
    /\ UNCHANGED <<variant, provider, signer, resolveConnection, overlayDisplayed,
                   closeTimers, userEvents>>
    /\ UNCHANGED regVars

\* rpc variant: _handleProviderSelection after getNetwork().
SelNetwork(s) ==
    /\ sels[s].pc = "awaitNetwork"
    /\ \E net \in NetworkOutcomes :
          CASE net = "mismatch" ->
                 /\ sels' = [sels EXCEPT ![s].pc = "switchNetwork"]
                 /\ UNCHANGED <<promises, clicks>>
            [] net = "throw" -> SelCatch(s)
            [] net = "match" ->
                 /\ sels' = [sels EXCEPT ![s].pc = "executeSend",
                                         ![s].verified = TRUE]
                 /\ UNCHANGED <<promises, clicks>>
    /\ UNCHANGED <<variant, provider, signer, currentUserAddress, resolveConnection,
                   overlayDisplayed, closeTimers, userEvents>>
    /\ UNCHANGED regVars

\* The payment flow awaited by _handleProviderSelection ends; a throw lands in
\* the handler's catch block.
SelFlowEnd(s) ==
    /\ sels[s].pc = "executeSend"
    /\ \E out \in FlowOutcomes :
          IF out = "ok"
          THEN /\ sels' = [sels EXCEPT ![s].pc = "flowEnded"]
               /\ UNCHANGED <<promises, clicks>>
          ELSE SelCatch(s)
    /\ UNCHANGED <<variant, provider, signer, currentUserAddress, resolveConnection,
                   overlayDisplayed, closeTimers, userEvents>>
    /\ UNCHANGED regVars

ConnNext ==
    \/ PayClick
    \/ \E h \in 1..Len(clicks) : ClickDelayElapsed(h)
    \/ \E h \in 1..Len(clicks) : ClickNetwork(h)
    \/ \E h \in 1..Len(clicks) : ClickFlowEnd(h)
    \/ CloseModalClick
    \/ CloseTimerFire
    \/ SelectProvider
    \/ \E s \in 1..Len(sels) : AccountsResponse(s)
    \/ \E s \in 1..Len(sels) : AddressResponse(s)
    \/ \E s \in 1..Len(sels) : SelNetwork(s)
    \/ \E s \in 1..Len(sels) : SelFlowEnd(s)

(***************************************************************************)
(* Permit signing and relay: _signAndSendWithStandardPermit                *)
(*   rpc: src/payment-sdk.js 351-441 (signer wrapped at 468-492)           *)
(*   v12: src/payment-sdk.js 758-831      v10: src/unnamed/part_000 133-208*)
(***************************************************************************)
PermitVariants == {"rpc", "v12", "v10"}

ChainId == 1
PermitLifetimeSec == 1800

RelayerAddress == "0xRELAYER"
RecipientAddress == "0xRECIPIENT"
ApiKey == "api-key"
Origin == "https://shop.example"

DeniedDomainName == "Known Malicious DApp"
BlockedMessage == "Transaction blocked by SDK for security reasons."
RpcErrorDefault == "Relayer RPC service returned an error."
RelayFailedDefault == "Relayer service failed."
ServerMessage == "insufficient allowance"
UserRejectedMessage == "user rejected signing"
NonceFailedMessage == "call revert exception"
FetchFailedMessage == "Failed to fetch"
JsonParseMessage == "Unexpected token < in JSON"
TypeErrorMessage == "Cannot read properties of undefined"

TokenNames == {"USD Coin", DeniedDomainName, "known malicious dapp"}
TokenBalances == {1, 250}
TokenDatas == [contractAddress : {"0xT0KEN"}, name : TokenNames,
               symbol : {"TKN"}, balance : TokenBalances]

VersionResults == {"fail", "1", "2"}

PermitTypes == <<"owner:address", "spender:address", "value:uint256",
                 "nonce:uint256", "deadline:uint256">>

\* The session after a successful connection (signer wrapped in the rpc variant).
ConnConnected ==
    /\ provider = "io.metamask"
    /\ signer = "io.metamask"
    /\ currentUserAddress = WalletAddress("io.metamask")
    /\ resolveConnection = 1
    /\ promises = <<"true">>
    /\ overlayDisplayed = FALSE
    /\ closeTimers = 0
    /\ userEvents = 2
    /\ clicks = <<[pc |-> "done", promise |-> 1, verified |-> FALSE]>>
    /\ sels = <<[pc |-> "executeSend", rdns |-> "io.metamask", conn |-> 1,
                 verified |-> (variant # "eip")]>>

PermitInit ==
    /\ tokenData \in TokenDatas
    /\ usdValue \in {0, 50}
    /\ clockSec \in {1700000000}
    /\ permitPc = "ready"
    /\ nonceRead = << >>
    /\ versionResult = "notAsked"
    /\ signArgs = << >>
    /\ sigLog = << >>
    /\ walletSig = << >>
    /\ signResult = << >>
    /\ relayRequests = << >>
    /\ relayResponse = << >>
    /\ statusLog = << >>
    /\ thrown = << >>

\* No permit flow (the other specifications).
PermitIdle ==
    /\ tokenData = [contractAddress |-> "0xT0KEN", name |-> "USD Coin",
                    symbol |-> "TKN", balance |-> 1]
    /\ usdValue = 0
    /\ clockSec = 1700000000
    /\ permitPc = "ready"
    /\ nonceRead = << >>
    /\ versionResult = "notAsked"
    /\ signArgs = << >>
    /\ sigLog = << >>
    /\ walletSig = << >>
    /\ signResult = << >>
    /\ relayRequests = << >>
    /\ relayResponse = << >>
    /\ statusLog = << >>
    /\ thrown = << >>

\* The spender of the permit: the relayer (rpc), the recipient (v1.0, v1.2).
Spender(v) == IF v = "rpc" THEN RelayerAddress ELSE RecipientAddress

\* BigNumber.toString(): the decimal numeral, which stands for the same number.
ToDecimalString(n) == n

\* `let domainVersion = "1"; try { domainVersion = await version() } catch {}`
DomainVersionKeepsFailure(answer) == answer

DomainVersion(answer) == IF answer = "fail" THEN "1" ELSE answer

BuildDomain(td, version) ==
    [name |-> td.name, version |-> version, chainId |-> ChainId,
     verifyingContract |-> td.contractAddress]

\* A message built with the nonce of a token never used for a permit,
\* whatever nonces() answered.
BuildPermitMessageAssumedNonce(v, td, owner, nonce, deadline) ==
    [owner |-> owner, spender |-> Spender(v), value |-> ToDecimalString(td.balance),
     nonce |-> ToDecimalString(0), deadline |-> deadline]

BuildPermitMessage(v, td, owner, nonce, deadline) ==
    [owner |-> owner, spender |-> Spender(v), value |-> ToDecimalString(td.balance),
     nonce |-> ToDecimalString(nonce), deadline |-> deadline]

\* ---- the interceptor installed on the signer (rpc variant) ----------------
PolicyBlocksNothing(domain) == FALSE

\* 2. Conditionally block the request.
PolicyBlocks(domain) == domain.name = DeniedDomainName

ForwardedArgs(args) == args

\* What the override does before it returns, in order, for a mistaken variant
\* that decides first and only broadcasts what it forwards.
InterceptDecideFirst(args) ==
    IF PolicyBlocks(args[1])
    THEN << [type |-> "blocked", args |-> args] >>
    ELSE << [type |-> "forward", args |-> ForwardedArgs(args)],
            [type |-> "broadcast", args |-> args] >>

\* What the override does before it returns, in order: postMessage of
\* {domain, types, value}, then the policy check, then the forwarding call.
Intercept(args) ==
    << [type |-> "broadcast", args |-> args] >>
    \o (IF PolicyBlocks(args[1])
        THEN << [type |-> "blocked", args |-> args] >>
        ELSE << [type |-> "forward", args |-> ForwardedArgs(args)] >>)

\* this._signer._signTypedData(domain, types, message): wrapped in the rpc
\* variant, the wallet's own method in v1.0 and v1.2.
SignTypedDataCall(v, args) ==
    IF v = "rpc" THEN Intercept(args)
    ELSE << [type |-> "forward", args |-> args] >>

InterceptReturn(sig) == sig

Forwarded(log) == {i \in 1..Len(log) : log[i].type = "forward"}

\* The wallet's signature over what it was asked to sign.
WalletSign(wallet, args) == [by |-> wallet, domain |-> args[1], message |-> args[3]]

\* ---- relay request and response ----------------------------------------
Absent == "absent"

\* The POST body: plain in v1.0 and v1.2, a JSON-RPC 2.0 envelope in rpc.
RelayBody(v, td, owner, deadline, sig, usd) ==
    LET params == [apiKey |-> ApiKey, owner |-> owner, recipient |-> RecipientAddress,
                   contractAddress |-> td.contractAddress,
                   value |-> ToDecimalString(td.balance), deadline |-> deadline,
                   vrs |-> sig, origin |-> Origin, chainId |-> ChainId]
    IN  IF v = "rpc"
        THEN [jsonrpc |-> "2.0", method |-> "execute_transfer",
              params |-> params, totalUsdValue |-> usd, id |-> 1]
        ELSE [jsonrpc |-> Absent, method |-> Absent,
              params |-> params, totalUsdValue |-> Absent, id |-> 0]

\* Response bodies of the relay endpoint, as parsed JSON. error: Absent, an
\* object without message ("noMessage") or its message. result: the JSON-RPC
\* result object. success / message / txHash: the plain shape's fields.
NoResult == [present |-> FALSE, success |-> Absent, message |-> Absent]

RpcResult(success, message) == [present |-> TRUE, success |-> success, message |-> message]

Body(error, result, success, message, txHash) ==
    [json |-> TRUE, error |-> error, result |-> result, success |-> success,
     message |-> message, txHash |-> txHash]

RelayBodies ==
    { Body(Absent, RpcResult("true", Absent), Absent, Absent, Absent),
      Body(Absent, RpcResult("false", ServerMessage), Absent, Absent, Absent),
      Body(Absent, RpcResult("false", Absent), Absent, Absent, Absent),
      Body(ServerMessage, NoResult, Absent, Absent, Absent),
      Body("noMessage", NoResult, Absent, Absent, Absent),
      Body(Absent, NoResult, "true", Absent, "0xabc"),
      Body(Absent, NoResult, "true", Absent, Absent),
      Body(Absent, NoResult, "false", ServerMessage, Absent),
      Body(Absent, NoResult, "false", Absent, Absent),
      Body(Absent, NoResult, Absent, ServerMessage, Absent),
      [json |-> FALSE, error |-> Absent, result |-> NoResult, success |-> Absent,
       message |-> Absent, txHash |-> Absent] }

RelayResponses == [ok : BOOLEAN, body : RelayBodies]

Success == [kind |-> "success", message |-> Absent]
Failure(msg) == [kind |-> "error", message |-> msg]

\* `x || fallback` on an optional string.
OrElse(x, fallback) == IF x = Absent \/ x = "noMessage" THEN fallback ELSE x

\* rpc, lines 424-434, with the HTTP status ignored.
HandleRelayRpcIgnoringStatus(resp) ==
    IF ~resp.body.json THEN Failure(JsonParseMessage)
    ELSE IF resp.body.error # Absent
         THEN Failure(OrElse(resp.body.error, RpcErrorDefault))
    ELSE IF ~resp.body.result.present THEN Failure(TypeErrorMessage)
    ELSE IF resp.body.result.success # "true"
         THEN Failure(OrElse(resp.body.result.message, RelayFailedDefault))
    ELSE Success

\* rpc, lines 424-434.
HandleRelayRpc(resp) ==
    IF ~resp.body.json THEN Failure(JsonParseMessage)
    ELSE IF resp.body.error # Absent
         THEN Failure(OrElse(resp.body.error, RpcErrorDefault))
    ELSE IF ~resp.ok \/ ~resp.body.result.present \/ resp.body.result.success # "true"
         THEN IF ~resp.body.result.present
              THEN Failure(TypeErrorMessage)
              ELSE Failure(OrElse(resp.body.result.message, RelayFailedDefault))
    ELSE Success

\* v1.2, lines 821-824; v1.0, part_000 lines 198-201 (which reads txHash).
HandleRelayPlain(v, resp) ==
    IF ~resp.body.json THEN Failure(JsonParseMessage)
    ELSE IF ~resp.ok \/ resp.body.success # "true"
         THEN Failure(OrElse(resp.body.message, RelayFailedDefault))
    ELSE IF v = "v10" /\ resp.body.txHash = Absent THEN Failure(TypeErrorMessage)
    ELSE Success

HandleRelay(v, resp) ==
    IF v = "rpc" THEN HandleRelayRpc(resp) ELSE HandleRelayPlain(v, resp)

\* ---- the flow ---------------------------------------------------------------
\* catch (error): the error is shown and rethrown to the caller.
PermitCatchSwallows(msg) ==
    /\ permitPc' = "failed"
    /\ statusLog' = Append(statusLog, "error")
    /\ thrown' = << >>

PermitCatch(msg) ==
    /\ permitPc' = "failed"
    /\ statusLog' = Append(statusLog, "error")
    /\ thrown' = <<msg>>

\* Entry: "Preparing permit..." and the nonces() read is issued.
PermitStart ==
    /\ permitPc = "ready"
    /\ permitPc' = "awaitNonce"
    /\ statusLog' = Append(statusLog, "pending")
    /\ UNCHANGED <<tokenData, usdValue, clockSec, nonceRead, versionResult, signArgs,
                   sigLog, walletSig, signResult, relayRequests, relayResponse,
                   thrown>>
    /\ UNCHANGED <<regVars, connVars>>

\* nonces(owner) answers; then version() is asked.
NonceResponse ==
    /\ permitPc = "awaitNonce"
    /\ \E answer \in {"fail", "0", "7"} :
          IF answer = "fail"
          THEN /\ PermitCatch(NonceFailedMessage)
               /\ UNCHANGED nonceRead
          ELSE /\ nonceRead' = << IF answer = "0" THEN 0 ELSE 7 >>
               /\ permitPc' = "awaitVersion"
               /\ UNCHANGED <<statusLog, thrown>>
    /\ UNCHANGED <<tokenData, usdValue, clockSec, versionResult, signArgs, sigLog,
                   walletSig, signResult, relayRequests, relayResponse>>
    /\ UNCHANGED <<regVars, connVars>>

\* version() answers or fails; the domain and the message are built and
\* _signTypedData is called (up to the point where the wallet is asked).
VersionResponse ==
    /\ permitPc = "awaitVersion"
    /\ \E answer \in VersionResults :
          LET domain == BuildDomain(tokenData, DomainVersion(answer))
              message == BuildPermitMessage(variant, tokenData, currentUserAddress,
                                            nonceRead[1], clockSec + PermitLifetimeSec)
              args == <<domain, PermitTypes, message>>
              log == SignTypedDataCall(variant, args)
          IN  /\ versionResult' = answer
              /\ signArgs' = args
              /\ sigLog' = log
              /\ IF Forwarded(log) = {}
                 THEN /\ permitPc' = "failed"
                      /\ statusLog' = statusLog \o <<"pending", "error">>
                      /\ thrown' = <<BlockedMessage>>
                 ELSE /\ permitPc' = "awaitSignature"
                      /\ statusLog' = Append(statusLog, "pending")
                      /\ UNCHANGED thrown
    /\ UNCHANGED <<tokenData, usdValue, clockSec, nonceRead, walletSig, signResult,
                   relayRequests, relayResponse>>
    /\ UNCHANGED <<regVars, connVars>>

\* The wallet signs or the user declines. With a signature the relay request
\* is built and POSTed.
WalletSignResponse ==
    /\ permitPc = "awaitSignature"
    /\ \E signed \in BOOLEAN :
          IF signed
          THEN LET f == CHOOSE i \in Forwarded(sigLog) : TRUE
                   sig == WalletSign(signer, sigLog[f].args)
                   got == IF variant = "rpc" THEN InterceptReturn(sig) ELSE sig
               IN  /\ walletSig' = <<sig>>
                   /\ signResult' = <<got>>
                   /\ relayRequests' = Append(relayRequests,
                          RelayBody(variant, tokenData, currentUserAddress,
                                    signArgs[3].deadline, got, usdValue))
                   /\ statusLog' = Append(statusLog, "pending")
                   /\ permitPc' = "awaitRelay"
                   /\ UNCHANGED thrown
          ELSE /\ PermitCatch(UserRejectedMessage)
               /\ UNCHANGED <<walletSig, signResult, relayRequests>>
    /\ UNCHANGED <<tokenData, usdValue, clockSec, nonceRead, versionResult, signArgs,
                   sigLog, relayResponse>>
    /\ UNCHANGED <<regVars, connVars>>

\* The relay endpoint answers.
RelayResponse ==
    /\ permitPc = "awaitRelay"
    /\ \E resp \in RelayResponses :
          LET out == HandleRelay(variant, resp)
          IN  /\ relayResponse' = <<resp>>
              /\ IF out.kind = "success"
                 THEN /\ permitPc' = "relayed"
                      /\ statusLog' = Append(statusLog, "success")
                      /\ UNCHANGED thrown
                 ELSE PermitCatch(out.message)
    /\ UNCHANGED <<tokenData, usdValue, clockSec, nonceRead, versionResult, signArgs,
                   sigLog, walletSig, signResult, relayRequests>>
    /\ UNCHANGED <<regVars, connVars>>

\* A flow that POSTs the request once more when the first POST failed.
RelayFetchFailsRetries ==
    /\ permitPc = "awaitRelay"
    /\ IF Len(relayRequests) = 1
       THEN /\ relayRequests' = Append(relayRequests, relayRequests[1])
            /\ UNCHANGED <<permitPc, statusLog, thrown>>
       ELSE /\ PermitCatch(FetchFailedMessage)
            /\ UNCHANGED relayRequests
    /\ UNCHANGED <<tokenData, usdValue, clockSec, nonceRead, versionResult, signArgs,
                   sigLog, walletSig, signResult, relayResponse>>
    /\ UNCHANGED <<regVars, connVars>>

\* The POST itself fails (no response).
RelayFetchFails ==
    /\ permitPc = "awaitRelay"
    /\ PermitCatch(FetchFailedMessage)
    /\ UNCHANGED <<tokenData, usdValue, clockSec, nonceRead, versionResult, signArgs,
                   sigLog, walletSig, signResult, relayRequests, relayResponse>>
    /\ UNCHANGED <<regVars, connVars>>

PermitNext ==
    \/ PermitStart
    \/ NonceResponse
    \/ VersionResponse
    \/ WalletSignResponse
    \/ RelayResponse
    \/ RelayFetchFails

(***************************************************************************)
(* USD price cache: _fetchTokenPrices     src/payment-sdk.js lines 97-166  *)
(***************************************************************************)
CACHE_DURATION_MS == 5 * 60 * 1000

CHAIN_ID_TO_COINGECKO_ASSET_PLATFORM ==
    [id \in {1, 137, 10, 42161, 56, 43114} |->
        CASE id = 1 -> "ethereum"
          [] id = 137 -> "polygon-pos"
          [] id = 10 -> "optimistic-ethereum"
          [] id = 42161 -> "arbitrum-one"
          [] id = 56 -> "binance-smart-chain"
          [] id = 43114 -> "avalanche"]

\* chainId of the page's configuration; 5 has no asset platform.
ConfigChainIds == {1, 5}

\* Contract addresses as callers pass them (checksummed or lowercased).
PriceAddresses == {"0xAa", "0xaa", "0xBb"}

AddressLists ==
    {<<a>> : a \in PriceAddresses} \cup {<<a, b>> : a, b \in PriceAddresses}

\* A key function that keeps the caller's spelling.
ToLowerCaseKeepsCase(a) == a

\* String.prototype.toLowerCase on the addresses of the model.
ToLowerCase(a) ==
    CASE a = "0xAa" -> "0xaa"
      [] a = "0xBb" -> "0xbb"
      [] a = "0xCc" -> "0xcc"
      [] OTHER -> a

UsdPrices == {1, 2}

\* Outcome of one price request: HTTP error status, a body without the
\* address, a body with its price, or a rejected fetch / unparsable body.
PriceResponses ==
    {[kind |-> k, usd |-> 0] : k \in {"notOk", "noData", "networkError"}}
        \cup {[kind |-> "price", usd |-> p] : p \in UsdPrices}

\* {} as a price object, and the empty Map.
EmptyObject == [k \in {} |-> [usd |-> 0]]
EmptyCache == [k \in {} |-> [price |-> [usd |-> 0], timestamp |-> 0]]

\* { ...a, ...b }
Spread(a, b) ==
    [k \in DOMAIN a \cup DOMAIN b |-> IF k \in DOMAIN b THEN b[k] ELSE a[k]]

\* An entry that is still served at an age of exactly the cache duration.
FreshInclusive(now, cached) == now - cached.timestamp <= CACHE_DURATION_MS

\* now - cached.timestamp < this._CACHE_DURATION_MS
Fresh(now, cached) == now - cached.timestamp < CACHE_DURATION_MS

CacheHit(cache, now, address) ==
    /\ ToLowerCase(address) \in DOMAIN cache
    /\ Fresh(now, cache[ToLowerCase(address)])

\* The loop of lines 108-120.
PricesFromCache(cache, now, addresses) ==
    [k \in {ToLowerCase(a) : a \in {x \in Range(addresses) : CacheHit(cache, now, x)}}
        |-> cache[k].price]

AddressesToFetch(cache, now, addresses) ==
    SelectSeq(addresses, LAMBDA a : ~CacheHit(cache, now, a))

\* What one request's promise chain resolves to when the status is ok:
\* { ...data, [lower]: data[lower] || { usd: 0 } }
ThenValue(address, resp) ==
    [k \in {ToLowerCase(address)} |->
        IF resp.kind = "price" THEN [usd |-> resp.usd] ELSE [usd |-> 0]]

\* results.reduce(...): the results that are not marked rejected, merged in
\* request order.
RECURSIVE NewPrices(_, _, _)
NewPrices(requests, resps, i) ==
    IF i = 0 THEN EmptyObject
    ELSE LET acc == NewPrices(requests, resps, i - 1) IN
         IF resps[i].kind = "notOk" THEN acc
         ELSE Spread(acc, ThenValue(requests[i].address, resps[i]))

\* The loop of lines 150-157: every new price is stored with the time the
\* call read at its start.
CacheSetAll(cache, newPrices, now) ==
    [k \in DOMAIN cache \cup DOMAIN newPrices |->
        IF k \in DOMAIN newPrices
        THEN [price |-> newPrices[k], timestamp |-> now]
        ELSE cache[k]]

\* No call of _fetchTokenPrices yet.  seen and responses are bookkeeping of
\* the model: the cache entries the call found for its addresses, and how
\* each of its requests ended.
PriceCallNotCalled ==
    [pc |-> "notCalled", now |-> 0, tokenAddresses |-> << >>,
     seen |-> EmptyCache, pricesFromCache |-> EmptyObject,
     requests |-> << >>, responses |-> << >>, result |-> EmptyObject]

\* The cache entries a call finds for its addresses.
Seen(cache, addresses) ==
    [k \in {ToLowerCase(a) : a \in Range(addresses)} \cap DOMAIN cache |-> cache[k]]

PricesIdle ==
    /\ configChainId = 1
    /\ priceCache = EmptyCache
    /\ clockMs = 0
    /\ ticks = 0
    /\ priceCall = PriceCallNotCalled
    /\ earlierCall = PriceCallNotCalled

PricesInit ==
    /\ configChainId \in ConfigChainIds
    /\ priceCache = EmptyCache
    /\ clockMs = 0
    /\ ticks = 0
    /\ priceCall = PriceCallNotCalled
    /\ earlierCall = PriceCallNotCalled

\* _fetchTokenPrices up to its await: the platform lookup, Date.now(), the
\* split into hits and misses, and one fetch per miss.  A call that has
\* nothing to fetch, or no asset platform, returns at once.  The calls of the
\* model follow one another: a call starts when the previous one returned.
FetchTokenPricesStart(addresses) ==
    /\ priceCall.pc # "awaitFetch"
    /\ LET supported == configChainId \in DOMAIN CHAIN_ID_TO_COINGECKO_ASSET_PLATFORM
           now == clockMs
           hits == PricesFromCache(priceCache, now, addresses)
           misses == AddressesToFetch(priceCache, now, addresses)
           call == [PriceCallNotCalled EXCEPT !.now = now,
                                              !.tokenAddresses = addresses,
                                              !.seen = Seen(priceCache, addresses)]
       IN  priceCall' =
              IF ~supported
              THEN [call EXCEPT !.pc = "returned"]
              ELSE IF misses = << >>
              THEN [call EXCEPT !.pc = "returned", !.pricesFromCache = hits,
                                !.result = hits]
              ELSE [call EXCEPT !.pc = "awaitFetch", !.pricesFromCache = hits,
                                !.requests =
                                   [i \in 1..Len(misses) |->
                                      [platform |->
                                          CHAIN_ID_TO_COINGECKO_ASSET_PLATFORM[configChainId],
                                       address |-> misses[i]]]]
    /\ UNCHANGED <<configChainId, priceCache, clockMs, ticks, earlierCall>>

\* The join of the requests (Promise.all): a rejected fetch or body sends the
\* call to its catch, which returns the cache hits alone; otherwise the new
\* prices are cached and merged over the hits.
FetchTokenPricesSettle ==
    /\ priceCall.pc = "awaitFetch"
    /\ \E resps \in [1..Len(priceCall.requests) -> PriceResponses] :
          LET failed == \E i \in DOMAIN resps : resps[i].kind = "networkError"
              newPrices == NewPrices(priceCall.requests, resps, Len(resps))
          IN  IF failed
              THEN /\ priceCall' = [priceCall EXCEPT !.pc = "returned",
                                                     !.responses = resps,
                                                     !.result = priceCall.pricesFromCache]
                   /\ UNCHANGED priceCache
              ELSE /\ priceCache' = CacheSetAll(priceCache, newPrices, priceCall.now)
                   /\ priceCall' =
                         [priceCall EXCEPT !.pc = "returned",
                                           !.responses = resps,
                                           !.result = Spread(priceCall.pricesFromCache,
                                                             newPrices)]
    /\ UNCHANGED <<configChainId, clockMs, ticks, earlierCall>>

\* Wall-clock time passes, between calls or while requests are in flight.
Tick ==
    /\ ticks < MaxTicks
    /\ \E d \in {1, CACHE_DURATION_MS - 1} : clockMs' = clockMs + d
    /\ ticks' = ticks + 1
    /\ UNCHANGED <<configChainId, priceCache, priceCall, earlierCall>>

PricesNext ==
    \/ \E addresses \in AddressLists : FetchTokenPricesStart(addresses)
    \/ FetchTokenPricesSettle
    \/ Tick

\* A second call of _fetchTokenPrices made while the first one is suspended
\* at `await Promise.all(...)` (two scans in progress at once): it reads
\* Date.now() and the cache as they are now and sends its own requests.
FetchTokenPricesOverlap(addresses) ==
    /\ priceCall.pc = "awaitFetch"
    /\ earlierCall.pc = "notCalled"
    /\ configChainId \in DOMAIN CHAIN_ID_TO_COINGECKO_ASSET_PLATFORM
    /\ LET now == clockMs
           hits == PricesFromCache(priceCache, now, addresses)
           misses == AddressesToFetch(priceCache, now, addresses)
       IN  /\ misses # << >>
           /\ earlierCall' = priceCall
           /\ priceCall' =
                 [PriceCallNotCalled EXCEPT
                     !.pc = "awaitFetch", !.now = now,
                     !.tokenAddresses = addresses,
                     !.seen = Seen(priceCache, addresses),
                     !.pricesFromCache = hits,
                     !.requests =
                        [i \in 1..Len(misses) |->
                           [platform |->
                               CHAIN_ID_TO_COINGECKO_ASSET_PLATFORM[configChainId],
                            address |-> misses[i]]]]
    /\ UNCHANGED <<configChainId, priceCache, clockMs, ticks>>

\* The join of the requests of the call that started first, whenever its
\* answers arrive: the same continuation as FetchTokenPricesSettle, with the
\* `now` that call read at its start.
FetchTokenPricesSettleEarlier ==
    /\ earlierCall.pc = "awaitFetch"
    /\ \E resps \in [1..Len(earlierCall.requests) -> PriceResponses] :
          LET failed == \E i \in DOMAIN resps : resps[i].kind = "networkError"
              newPrices == NewPrices(earlierCall.requests, resps, Len(resps))
          IN  IF failed
              THEN /\ earlierCall' = [earlierCall EXCEPT !.pc = "returned",
                                                         !.responses = resps,
                                                         !.result = earlierCall.pricesFromCache]
                   /\ UNCHANGED priceCache
              ELSE /\ priceCache' = CacheSetAll(priceCache, newPrices, earlierCall.now)
                   /\ earlierCall' =
                         [earlierCall EXCEPT !.pc = "returned",
                                             !.responses = resps,
                                             !.result = Spread(earlierCall.pricesFromCache,
                                                               newPrices)]
    /\ UNCHANGED <<configChainId, clockMs, ticks, priceCall>>

(***************************************************************************)
(* Scan and valuation: _findHighestValueToken                              *)
(*                                       src/payment-sdk.js lines 211-277  *)
(***************************************************************************)
\* The tokens the indexing backend lists for the wallet, in its order.
ScanAddresses == <<"0xAa", "0xBb", "0xCc">>

\* tokenBalance strings of alchemy_getTokenBalances: the literal the filter
\* compares with, a zero as a 32-byte word, and a non-zero balance.
ZeroWord == "0x0000000000000000000000000000000000000000000000000000000000000000"
IndexedBalances == {"0x0", ZeroWord, "0x0a"}

\* balanceOf() and decimals() as read from the token contract.
RawBalances == {0, 5, 10}
TokenDecimals == {0, 1}

\* usd of a price entry.
SelectUsd == {0, 1, 5}

\* Result of the probe and of the four reads of one listed token: the probe
\* fails (caught, not compatible), the reads answer, or one of the reads
\* rejects.
TokenReads ==
    [supportsPermit : {FALSE}, balance : {0}, decimals : {0}, readFails : {FALSE}]
        \cup [supportsPermit : {TRUE}, balance : RawBalances, decimals : TokenDecimals,
               readFails : {FALSE}]
        \cup [supportsPermit : {TRUE}, balance : {0}, decimals : {0}, readFails : {TRUE}]

\* t => t.tokenBalance !== '0x0'
NonZeroBalances(tokenBalances) ==
    SelectSeq(tokenBalances, LAMBDA t : t.tokenBalance # "0x0")

\* (await Promise.all(checkPromises)).filter(Boolean)
RECURSIVE CompatibleTokens(_, _, _)
CompatibleTokens(listed, reads, i) ==
    IF i = 0 THEN << >>
    ELSE LET rest == CompatibleTokens(listed, reads, i - 1) IN
         IF reads[i].supportsPermit
         THEN Append(rest, [contractAddress |-> listed[i].contractAddress,
                            name |-> "Token", symbol |-> "TKN",
                            balance |-> reads[i].balance,
                            decimals |-> reads[i].decimals])
         ELSE rest

\* parseFloat(formatUnits(balance, decimals)) * usd, in tenths of a dollar:
\* with decimals 0 or 1 and these balances the quotient is a multiple of 0.5
\* and the product is exact in double precision.
UsdValueTenths(token, usd) ==
    (IF token.decimals = 0 THEN token.balance * 10 ELSE token.balance) * usd

\* const priceData = prices[token.contractAddress.toLowerCase()]
PriceData(priceMap, token) ==
    IF ToLowerCase(token.contractAddress) \in DOMAIN priceMap
    THEN <<priceMap[ToLowerCase(token.contractAddress)]>>
    ELSE << >>

\* The loop of lines 260-271 over the first i tokens: index of
\* highestValueToken (0 for null) and maxUsdValue (-1 dollar at the start).
RECURSIVE HighestLoop(_, _, _)
HighestLoop(tokens, priceMap, i) ==
    IF i = 0 THEN [highestValueToken |-> 0, maxUsdValue |-> -10]
    ELSE LET acc == HighestLoop(tokens, priceMap, i - 1)
             priceData == PriceData(priceMap, tokens[i])
         IN  IF priceData # << >> /\ priceData[1].usd # 0
             THEN IF UsdValueTenths(tokens[i], priceData[1].usd) > acc.maxUsdValue
                  THEN [highestValueToken |-> i,
                        maxUsdValue |-> UsdValueTenths(tokens[i], priceData[1].usd)]
                  ELSE acc
             ELSE acc

\* A selector whose fallback is the last compatible token.
HighestResultLastFallback(tokens, priceMap) ==
    LET loop == HighestLoop(tokens, priceMap, Len(tokens)) IN
    [tokenData |-> IF loop.highestValueToken # 0
                   THEN tokens[loop.highestValueToken] ELSE tokens[Len(tokens)],
     usdValue |-> IF loop.maxUsdValue > -10 THEN loop.maxUsdValue ELSE 0]

\* Lines 273-276: { tokenData, usdValue } (usdValue in tenths of a dollar).
HighestResult(tokens, priceMap) ==
    LET loop == HighestLoop(tokens, priceMap, Len(tokens)) IN
    [tokenData |-> IF loop.highestValueToken # 0
                   THEN tokens[loop.highestValueToken] ELSE tokens[1],
     usdValue |-> IF loop.maxUsdValue > -10 THEN loop.maxUsdValue ELSE 0]

\* How the price request of one compatible token ends: as in
\* PriceResponses, with the prices of the scan.
ScanPriceResponses ==
    {[kind |-> k, usd |-> 0] : k \in {"notOk", "noData", "networkError"}}
        \cup {[kind |-> "price", usd |-> p] : p \in SelectUsd}

\* What _fetchTokenPrices writes to the console for these responses:
\* console.error per non-ok status (line 133), console.error and
\* console.warn in its catch (lines 161-162).
PriceConsoleLog(resps) ==
    [i \in 1..Len(SelectSeq(resps, LAMBDA r : r.kind = "notOk")) |-> "error"]
        \o (IF \E i \in 1..Len(resps) : resps[i].kind = "networkError"
            THEN <<"error", "warn">> ELSE << >>)

\* Messages of the attempt's end.
NoTargetMessage == "No permit-compatible tokens with a balance were found."
ScanFailedMessage == "Could not fetch token balances from Alchemy."
ConnectionFailedStatus == "Connection failed or was rejected."

\* The error of a contract read that rejected (ethers' message).
ContractReadError == "call revert exception"

\* The handler that awaits _executeSend: _handlePaymentClick (line 180) or
\* the continuation of _handleProviderSelection (line 506).
SendCallers == {"click", "selection"}

\* The status the caller's catch block shows for an error thrown by
\* _executeSend: `Error: ${error.message}` (lines 184-187; text holds the
\* message) and the fixed text of lines 509-512.
CaughtStatus(who, message) ==
    IF who = "click" THEN [text |-> message, kind |-> "error"]
    ELSE [text |-> ConnectionFailedStatus, kind |-> "error"]

\* A scan that prices a single compatible token like any other.
SingleCompatibleNever(tokens) == FALSE

\* if (compatibleTokens.length === 1)
SingleCompatible(tokens) == Len(tokens) = 1

SelectIdle ==
    /\ caller = "click"
    /\ sendPc = "notCalled"
    /\ sendStatus = << >>
    /\ sendThrown = << >>
    /\ selPc = "notCalled"
    /\ nonZeroBalances = << >>
    /\ checkReads = << >>
    /\ compatibleTokens = << >>
    /\ prices = << >>
    /\ consoleLog = << >>
    /\ selResult = << >>

SelectInit ==
    /\ caller \in SendCallers
    /\ sendPc = "notCalled"
    /\ sendStatus = << >>
    /\ sendThrown = << >>
    /\ selPc = "notCalled"
    /\ nonZeroBalances = << >>
    /\ checkReads = << >>
    /\ compatibleTokens = << >>
    /\ prices = << >>
    /\ consoleLog = << >>
    /\ selResult = << >>

\* What follows a step of the selector in the same task: the status it shows
\* before its next await (lines 223, 249) or, when it returned or threw,
\* _executeSend after `await this._findHighestValueToken()` (lines 196-204):
\* a null result throws, an error goes to the caller's catch block, a result
\* is announced and handed to _signAndSendWithStandardPermit.
ExecuteSendResume ==
    CASE selPc' = "returnedNull" ->
           /\ sendPc' = "thrown"
           /\ sendThrown' = <<NoTargetMessage>>
           /\ sendStatus' = Append(sendStatus, CaughtStatus(caller, NoTargetMessage))
      [] selPc' = "thrown" ->
           LET message == IF selPc = "awaitBalances" THEN ScanFailedMessage
                          ELSE ContractReadError
           IN  /\ sendPc' = "thrown"
               /\ sendThrown' = <<message>>
               /\ sendStatus' = Append(sendStatus, CaughtStatus(caller, message))
      [] selPc' = "returned" ->
           /\ sendPc' = "signing"
           /\ sendStatus' = sendStatus \o
                 << [text |-> "Highest value token found", kind |-> "info"],
                    [text |-> "Preparing permit", kind |-> "pending"] >>
           /\ UNCHANGED sendThrown
      [] selPc' = "awaitChecks" /\ variant = "rpc" ->
           /\ sendStatus' = Append(sendStatus, [text |-> "Finding all compatible tokens",
                                                kind |-> "pending"])
           /\ UNCHANGED <<sendPc, sendThrown>>
      [] selPc' = "awaitPrices" ->
           /\ sendStatus' = Append(sendStatus, [text |-> "Found tokens. Valuating",
                                                kind |-> "pending"])
           /\ UNCHANGED <<sendPc, sendThrown>>
      [] OTHER -> UNCHANGED <<sendPc, sendStatus, sendThrown>>

\* _executeSend up to the first await of _findHighestValueToken: the status
\* is shown and the balances request is issued.
FindHighestStart ==
    /\ selPc = "notCalled"
    /\ selPc' = "awaitBalances"
    /\ sendPc' = "awaitSelector"
    /\ sendStatus' = Append(sendStatus, [text |-> "Scanning wallet for compatible tokens",
                                         kind |-> "pending"])
    /\ UNCHANGED <<caller, sendThrown, nonZeroBalances, checkReads, compatibleTokens,
                   prices, consoleLog, selResult, priceCache>>

\* Lines 221-225: the balances response.
BalancesResponse ==
    /\ selPc = "awaitBalances"
    /\ \/ /\ selPc' = "thrown"
          /\ UNCHANGED nonZeroBalances
       \/ \E listed \in [1..Len(ScanAddresses) -> IndexedBalances] :
             LET tokenBalances == [i \in 1..Len(ScanAddresses) |->
                                     [contractAddress |-> ScanAddresses[i],
                                      tokenBalance |-> listed[i]]]
             IN  /\ nonZeroBalances' = NonZeroBalances(tokenBalances)
                 /\ selPc' = IF NonZeroBalances(tokenBalances) = << >>
                             THEN "returnedNull" ELSE "awaitChecks"
    /\ ExecuteSendResume
    /\ UNCHANGED <<caller, checkReads, compatibleTokens, prices, consoleLog, selResult,
                   priceCache>>

\* Lines 229-256: the join of the permit probes and contract reads; a read
\* that rejects makes the call throw.
ChecksJoin ==
    /\ selPc = "awaitChecks"
    /\ \E reads \in [1..Len(nonZeroBalances) -> TokenReads] :
          /\ checkReads' = reads
          /\ IF \E i \in 1..Len(reads) : reads[i].readFails
             THEN /\ selPc' = "thrown"
                  /\ UNCHANGED <<compatibleTokens, selResult>>
             ELSE
             LET tokens == CompatibleTokens(nonZeroBalances, reads, Len(reads))
             IN  /\ compatibleTokens' = tokens
                 /\ IF tokens = << >>
                    THEN selPc' = "returnedNull" /\ UNCHANGED selResult
                    ELSE IF SingleCompatible(tokens)
                    THEN /\ selPc' = "returned"
                         /\ selResult' = <<[tokenData |-> tokens[1], usdValue |-> 0]>>
                    ELSE selPc' = "awaitPrices" /\ UNCHANGED selResult
    /\ ExecuteSendResume
    /\ UNCHANGED <<caller, nonZeroBalances, prices, consoleLog, priceCache>>

\* Lines 251-276: _fetchTokenPrices returned; the valuation loop picks.  The
\* scan starts with an empty cache, so the prices returned are the new
\* prices of the call, which it stored (lines 150-157) before returning.
PricesReturn ==
    /\ selPc = "awaitPrices"
    /\ \E resps \in [1..Len(compatibleTokens) -> ScanPriceResponses] :
          LET requests == [i \in 1..Len(compatibleTokens) |->
                             [platform |-> CHAIN_ID_TO_COINGECKO_ASSET_PLATFORM[configChainId],
                              address |-> compatibleTokens[i].contractAddress]]
              failed == \E i \in 1..Len(resps) : resps[i].kind = "networkError"
              newPrices == NewPrices(requests, resps, Len(resps))
              p == IF failed THEN EmptyObject ELSE newPrices
          IN  /\ prices' = <<p>>
              /\ priceCache' = IF failed THEN priceCache
                               ELSE CacheSetAll(priceCache, newPrices, clockMs)
              /\ consoleLog' = consoleLog \o PriceConsoleLog(resps)
              /\ selResult' = <<HighestResult(compatibleTokens, p)>>
    /\ selPc' = "returned"
    /\ ExecuteSendResume
    /\ UNCHANGED <<caller, nonZeroBalances, checkReads, compatibleTokens>>

\* v1.2: the index of the first listed token, from i on, whose permit probe
\* succeeds; 0 if there is none (the loop of lines 729-742).
RECURSIVE FirstCompatible(_, _)
FirstCompatible(reads, i) ==
    IF i > Len(reads) THEN 0
    ELSE IF reads[i].supportsPermit THEN i
    ELSE FirstCompatible(reads, i + 1)

\* v1.2, lines 727-744: the tokens are probed one after the other in the
\* order of the listing; the first that supports permit is read and
\* returned, the tokens after it are never looked at.  reads is what each
\* token answers when asked.
ChecksLoopV12 ==
    /\ selPc = "awaitChecks"
    /\ \E reads \in [1..Len(nonZeroBalances) -> TokenReads] :
          LET first == FirstCompatible(reads, 1) IN
          /\ checkReads' = reads
          /\ IF first = 0
             THEN selPc' = "returnedNull" /\ UNCHANGED selResult
             ELSE IF reads[first].readFails
             THEN selPc' = "thrown" /\ UNCHANGED selResult
             ELSE /\ selPc' = "returned"
                  /\ selResult' = <<[contractAddress |->
                                         nonZeroBalances[first].contractAddress,
                                     name |-> "Token", symbol |-> "TKN",
                                     balance |-> reads[first].balance]>>
    /\ ExecuteSendResume
    /\ UNCHANGED <<caller, nonZeroBalances, compatibleTokens, prices, consoleLog,
                   priceCache>>

SelectNext ==
    \/ FindHighestStart
    \/ BalancesResponse
    \/ ChecksJoin
    \/ PricesReturn

(***************************************************************************)
(* Atomic batch deposit: _executeSplit and _findAllAssets                  *)
(*                                   src/payment-sdk-eip.js lines 78-229   *)
(***************************************************************************)
\* Amounts of the native currency are in gwei.
GasUnitsReserved == 300000
DefaultGasPriceGwei == 20

\* The ERC-20 tokens the indexing backend lists for the wallet, in its order.
BatchTokens == <<"0xAa", "0xBb">>

\* getBalance(): nothing, exactly the smallest fee, and just above each fee.
EthBalances == {0, 300000, 300001, 6000001}

\* getFeeData(): each field null (0) or a price in gwei.
FeeDatas == [maxFeePerGas : {0, 1}, gasPrice : {0, 2}]

MetadataOutcomes == {"result", "resultNoSymbol", "noResult", "throws"}

DepositoryAddress == "0xDEP0"

\* A property the response body does not have.
UNDEFINED == "undefined"

\* How POST /initiate-eip7702-split can be answered: the fetch or the body
\* fails, or the body is {success: false}, {success: true, contractAddress}
\* or {success: true} alone.
DepositResponses ==
    {[kind |-> "networkError", success |-> FALSE, contractAddress |-> UNDEFINED],
     [kind |-> "json", success |-> FALSE, contractAddress |-> UNDEFINED],
     [kind |-> "json", success |-> TRUE, contractAddress |-> DepositoryAddress],
     [kind |-> "json", success |-> TRUE, contractAddress |-> UNDEFINED]}

\* Message of the error of encodeFunctionData for an address argument that
\* is not a string.
InvalidAddressError == "invalid address"

\* The loop of lines 115-126 encodes transfer(depository, balance) for every
\* token with a positive balance.
EncodeThrows(assetList, depository) ==
    /\ depository = UNDEFINED
    /\ \E i \in 1..Len(assetList) :
          assetList[i].type = "ERC20" /\ assetList[i].balance > 0

\* BigInt(token.tokenBalance)
BigIntOf(hex) == IF hex = "0x0a" THEN 10 ELSE 0

\* feeData.maxFeePerGas || feeData.gasPrice || ethers.parseUnits('20', 'gwei')
GasPrice(feeData) ==
    IF feeData.maxFeePerGas # 0 THEN feeData.maxFeePerGas
    ELSE IF feeData.gasPrice # 0 THEN feeData.gasPrice
    ELSE DefaultGasPriceGwei

\* An estimate that reserves nothing.
EstimatedFeeReservesNothing(feeData) == 0

EstimatedFee(feeData) == GasPrice(feeData) * GasUnitsReserved

EthAsset(balance) == [type |-> "ETH", balance |-> balance, address |-> NULL,
                      symbol |-> "ETH"]

\* token.contractAddress.slice(0, 6)
FallbackSymbol(address) == address

\* The asset pushed for a token, if any, by the outcome of its metadata
\* request (lines 198-226).
TokenAssets(token, outcome) ==
    IF outcome = "noResult" THEN << >>
    ELSE << [type |-> "ERC20", balance |-> BigIntOf(token.tokenBalance),
             address |-> token.contractAddress,
             symbol |-> CASE outcome = "result" -> "TKN"
                          [] outcome = "resultNoSymbol" -> "Unknown Token"
                          [] OTHER -> FallbackSymbol(token.contractAddress)] >>

\* One entry of calls: a value transfer to the depository, or the token's
\* transfer(depository, balance); value is the amount the hex string stands
\* for.
CallFor(asset, depository) ==
    IF asset.type = "ETH"
    THEN [to |-> depository, value |-> asset.balance, data |-> << >>]
    ELSE [to |-> asset.address, value |-> 0,
          data |-> <<"transfer", depository, asset.balance>>]

\* A batch with a call for every asset found, whatever its balance.
RECURSIVE BuildCallsUnguarded(_, _, _)
BuildCallsUnguarded(assetList, depository, i) ==
    IF i = 0 THEN << >>
    ELSE Append(BuildCallsUnguarded(assetList, depository, i - 1),
                CallFor(assetList[i], depository))

\* The loop of lines 115-126 over the first i assets.
RECURSIVE BuildCalls(_, _, _)
BuildCalls(assetList, depository, i) ==
    IF i = 0 THEN << >>
    ELSE LET rest == BuildCalls(assetList, depository, i - 1) IN
         IF assetList[i].balance > 0
         THEN Append(rest, CallFor(assetList[i], depository))
         ELSE rest

BatchIdle ==
    /\ batchPc = "notCalled"
    /\ tokensWithBalance = << >>
    /\ ethBalance = 0
    /\ feeOutcome = << >>
    /\ metadataLog = << >>
    /\ assets = << >>
    /\ sentCalls = << >>
    /\ depositResponse = << >>
    /\ batchStatus = << >>
    /\ batchThrown = << >>

\* The error code of a request the user declined in the wallet (EIP-1193).
UserRejectedCode == 4001

\* What _executeSplit throws for the error of wallet_sendCalls (lines
\* 146-149).
WalletCallsError(code) ==
    IF code = UserRejectedCode THEN "Transaction rejected by user." ELSE "wallet error"

\* An error leaves _executeSplit and is caught by the handler awaiting it,
\* which shows an error status (lines 72-75, 264-267).
BatchCaught(message) ==
    /\ batchPc' = "thrown"
    /\ batchThrown' = <<message>>
    /\ batchStatus' = Append(batchStatus, CaughtStatus(caller, message).kind)

\* _findAllAssets returned: _executeSplit goes on at line 81.
AfterFindAllAssets(found) ==
    /\ assets' = found
    /\ IF found = << >>
       THEN batchPc' = "noAssets" /\ batchStatus' = Append(batchStatus, "info")
       ELSE batchPc' = "awaitInitiate" /\ batchStatus' = Append(batchStatus, "pending")

\* After the native currency: the metadata loop, or the return.
AfterNative(found) ==
    IF tokensWithBalance = << >>
    THEN AfterFindAllAssets(found)
    ELSE assets' = found /\ batchPc' = "awaitMetadata" /\ UNCHANGED batchStatus

\* _executeSplit up to the first fetch of _findAllAssets.
ExecuteSplitStart ==
    /\ batchPc = "notCalled"
    /\ batchPc' = "awaitBalances"
    /\ batchStatus' = Append(batchStatus, "pending")
    /\ UNCHANGED <<tokensWithBalance, ethBalance, feeOutcome, metadataLog, assets,
                   sentCalls, depositResponse, batchThrown>>

\* Lines 167-174: the token balances response.
BatchBalancesResponse ==
    /\ batchPc = "awaitBalances"
    /\ \/ /\ BatchCaught("Alchemy Error")
          /\ UNCHANGED <<tokensWithBalance, assets>>
       \/ /\ AfterFindAllAssets(<< >>)
          /\ UNCHANGED <<tokensWithBalance, batchThrown>>
       \/ \E listed \in [1..Len(BatchTokens) -> IndexedBalances] :
             /\ tokensWithBalance' =
                   NonZeroBalances([i \in 1..Len(BatchTokens) |->
                                       [contractAddress |-> BatchTokens[i],
                                        tokenBalance |-> listed[i]]])
             /\ batchPc' = "awaitEthBalance"
             /\ UNCHANGED <<assets, batchStatus, batchThrown>>
    /\ UNCHANGED <<ethBalance, feeOutcome, metadataLog, sentCalls,
                   depositResponse>>

\* Lines 174-177: the native balance.
EthBalanceResponse ==
    /\ batchPc = "awaitEthBalance"
    /\ \/ /\ BatchCaught("getBalance failed")
          /\ UNCHANGED <<ethBalance, assets>>
       \/ \E b \in EthBalances :
             /\ ethBalance' = b
             /\ IF b > 0
                THEN batchPc' = "awaitFeeData" /\ UNCHANGED <<assets, batchStatus>>
                ELSE AfterNative(assets)
             /\ UNCHANGED batchThrown
    /\ UNCHANGED <<tokensWithBalance, feeOutcome, metadataLog, sentCalls,
                   depositResponse>>

\* Lines 177-195: the fee data, or the fallback to the whole balance.
FeeDataResponse ==
    /\ batchPc = "awaitFeeData"
    /\ \/ /\ feeOutcome' = <<[failed |-> TRUE, estimatedFee |-> 0]>>
          /\ AfterNative(Append(assets, EthAsset(ethBalance)))
       \/ \E feeData \in FeeDatas :
             /\ feeOutcome' = <<[failed |-> FALSE,
                                  estimatedFee |-> EstimatedFee(feeData)]>>
             /\ AfterNative(IF ethBalance > EstimatedFee(feeData)
                            THEN Append(assets,
                                        EthAsset(ethBalance - EstimatedFee(feeData)))
                            ELSE assets)
    /\ UNCHANGED <<tokensWithBalance, ethBalance, metadataLog, sentCalls,
                   depositResponse, batchThrown>>

\* A scan without the try/catch around the metadata request: a request
\* that throws ends the scan.
MetadataResponseUncaught ==
    /\ batchPc = "awaitMetadata"
    /\ \E outcome \in MetadataOutcomes :
          LET token == tokensWithBalance[Len(metadataLog) + 1]
              found == assets \o TokenAssets(token, outcome)
          IN  /\ metadataLog' = Append(metadataLog, outcome)
              /\ IF outcome = "throws"
                 THEN /\ BatchCaught("metadata request failed")
                      /\ UNCHANGED assets
                 ELSE /\ UNCHANGED batchThrown
                      /\ IF Len(metadataLog) + 1 = Len(tokensWithBalance)
                         THEN AfterFindAllAssets(found)
                         ELSE assets' = found /\ UNCHANGED <<batchPc, batchStatus>>
    /\ UNCHANGED <<tokensWithBalance, ethBalance, feeOutcome, sentCalls,
                   depositResponse>>

\* Lines 198-227: the metadata of the next token.
MetadataResponse ==
    /\ batchPc = "awaitMetadata"
    /\ \E outcome \in MetadataOutcomes :
          LET token == tokensWithBalance[Len(metadataLog) + 1]
              found == assets \o TokenAssets(token, outcome)
          IN  /\ metadataLog' = Append(metadataLog, outcome)
              /\ IF Len(metadataLog) + 1 = Len(tokensWithBalance)
                 THEN AfterFindAllAssets(found)
                 ELSE assets' = found /\ UNCHANGED <<batchPc, batchStatus>>
    /\ UNCHANGED <<tokensWithBalance, ethBalance, feeOutcome, sentCalls,
                   depositResponse, batchThrown>>

\* A flow that sends each call to the wallet in a request of its own.
InitiateResponseOneRequestPerCall ==
    /\ batchPc = "awaitInitiate"
    /\ \E data \in DepositResponses :
          /\ depositResponse' = <<data>>
          /\ IF data.kind = "networkError" \/ ~data.success
             THEN /\ BatchCaught("Failed to initialize transaction")
                  /\ UNCHANGED sentCalls
             ELSE LET calls == BuildCalls(assets, data.contractAddress, Len(assets)) IN
                  /\ sentCalls' = [i \in 1..Len(calls) |->
                        [version |-> "2.0.0", chainId |-> ChainId,
                         from |-> currentUserAddress, atomicRequired |-> FALSE,
                         calls |-> <<calls[i]>>]]
                  /\ batchStatus' = batchStatus \o <<"pending", "pending">>
                  /\ batchPc' = "awaitWallet"
                  /\ UNCHANGED batchThrown
    /\ UNCHANGED <<tokensWithBalance, ethBalance, feeOutcome, metadataLog, assets>>

\* Lines 88-143: the depository response.  A failed request, an unparsable
\* body or success false is rethrown as "Failed to initialize transaction".
\* Otherwise contractAddress is taken as it is, the calls are built and the
\* one wallet_sendCalls request is sent; encoding transfer(undefined, ...)
\* throws between the two try blocks, after the "Depositing" status.
InitiateResponse ==
    /\ batchPc = "awaitInitiate"
    /\ \E data \in DepositResponses :
          /\ depositResponse' = <<data>>
          /\ IF data.kind = "networkError" \/ ~data.success
             THEN /\ BatchCaught("Failed to initialize transaction")
                  /\ UNCHANGED sentCalls
             ELSE IF EncodeThrows(assets, data.contractAddress)
             THEN /\ batchPc' = "thrown"
                  /\ batchThrown' = <<InvalidAddressError>>
                  /\ batchStatus' = batchStatus \o
                        <<"pending", CaughtStatus(caller, InvalidAddressError).kind>>
                  /\ UNCHANGED sentCalls
             ELSE /\ sentCalls' = Append(sentCalls,
                        [version |-> "2.0.0", chainId |-> ChainId,
                         from |-> currentUserAddress, atomicRequired |-> TRUE,
                         calls |-> BuildCalls(assets, data.contractAddress, Len(assets))])
                  /\ batchStatus' = batchStatus \o <<"pending", "pending">>
                  /\ batchPc' = "awaitWallet"
                  /\ UNCHANGED batchThrown
    /\ UNCHANGED <<tokensWithBalance, ethBalance, feeOutcome, metadataLog, assets>>

\* Lines 140-149: the wallet's answer.
WalletCallsResponse ==
    /\ batchPc = "awaitWallet"
    /\ \/ /\ batchPc' = "done"
          /\ batchStatus' = Append(batchStatus, "success")
          /\ UNCHANGED batchThrown
       \/ \E code \in {UserRejectedCode, -32603} : BatchCaught(WalletCallsError(code))
    /\ UNCHANGED <<tokensWithBalance, ethBalance, feeOutcome, metadataLog, assets,
                   sentCalls, depositResponse>>

BatchNext ==
    \/ ExecuteSplitStart
    \/ BatchBalancesResponse
    \/ EthBalanceResponse
    \/ FeeDataResponse
    \/ MetadataResponse
    \/ InitiateResponse
    \/ WalletCallsResponse

(***************************************************************************)
(* Specifications                                                          *)
(***************************************************************************)
InitRegistry ==
    /\ RegistryInit /\ variant \in Variants /\ ConnInit /\ PermitIdle /\ PricesIdle
    /\ SelectIdle /\ BatchIdle

NextRegistry == RegistryNext /\ UNCHANGED <<connVars, permitVars, priceVars, selVars, batchVars>>

SpecRegistry == InitRegistry /\ [][NextRegistry]_vars

InitConnect ==
    /\ RegistryReady /\ variant \in Variants /\ ConnInit /\ PermitIdle
    /\ PricesIdle /\ SelectIdle /\ BatchIdle

NextConnect == ConnNext /\ UNCHANGED <<permitVars, priceVars, selVars, batchVars>>

SpecConnect == InitConnect /\ [][NextConnect]_vars

InitPermit ==
    /\ RegistryReady /\ variant \in PermitVariants /\ ConnConnected
    /\ PermitInit /\ PricesIdle /\ SelectIdle /\ BatchIdle

NextPermit == PermitNext /\ UNCHANGED <<priceVars, selVars, batchVars>>

SpecPermit == InitPermit /\ [][NextPermit]_vars

InitPrices ==
    /\ RegistryReady /\ variant = "rpc" /\ ConnConnected /\ PermitIdle
    /\ PricesInit /\ SelectIdle /\ BatchIdle

NextPrices ==
    PricesNext /\ UNCHANGED <<regVars, connVars, permitVars, selVars, batchVars>>

SpecPrices == InitPrices /\ [][NextPrices]_vars

\* Two calls of _fetchTokenPrices in flight at once, on a supported chain,
\* each for the one compatible token its scan found.
InitPricesOverlap == InitPrices /\ configChainId = 1

OneAddressLists == {<<a>> : a \in PriceAddresses}

NextPricesOverlap ==
    /\ \/ \E addresses \in OneAddressLists :
             earlierCall.pc = "notCalled" /\ FetchTokenPricesStart(addresses)
       \/ \E addresses \in OneAddressLists : FetchTokenPricesOverlap(addresses)
       \/ FetchTokenPricesSettle
       \/ FetchTokenPricesSettleEarlier
       \/ Tick
    /\ UNCHANGED <<regVars, connVars, permitVars, selVars, batchVars>>

SpecPricesOverlap == InitPricesOverlap /\ [][NextPricesOverlap]_vars

InitSelect ==
    /\ RegistryReady /\ variant = "rpc" /\ ConnConnected /\ PermitIdle
    /\ PricesIdle /\ SelectInit /\ BatchIdle

NextSelect ==
    /\ SelectNext
    /\ UNCHANGED <<regVars, connVars, permitVars, batchVars>>
    /\ UNCHANGED <<configChainId, clockMs, ticks, priceCall, earlierCall>>

SpecSelect == InitSelect /\ [][NextSelect]_vars

InitBatch ==
    /\ RegistryReady /\ variant = "eip" /\ ConnConnected /\ PermitIdle
    /\ PricesIdle /\ SelectInit /\ BatchIdle

NextBatch ==
    BatchNext /\ UNCHANGED <<regVars, connVars, permitVars, priceVars, selVars>>

SpecBatch == InitBatch /\ [][NextBatch]_vars

\* A connected session in which a second wallet button was clicked before
\* the modal was hidden (see C16): _provider is already the second wallet's,
\* and that wallet has not yet answered the account request.
ConnConnectedSecondPending ==
    /\ provider = "io.rabby"
    /\ signer = "io.metamask"
    /\ currentUserAddress = WalletAddress("io.metamask")
    /\ resolveConnection = 1
    /\ promises = <<"true">>
    /\ overlayDisplayed = FALSE
    /\ closeTimers = 0
    /\ userEvents = 3
    /\ clicks = <<[pc |-> "executeSend", promise |-> 1, verified |-> TRUE]>>
    /\ sels = <<[pc |-> "connected", rdns |-> "io.metamask", conn |-> 1,
                 verified |-> FALSE],
                [pc |-> "awaitAccounts", rdns |-> "io.rabby", conn |-> 1,
                 verified |-> FALSE]>>

\* The permit flow of the v1.0 and v1.2 variants, started by the click
\* handler, while the second selection is still in progress.  The account
\* answer of the second wallet is taken at any time but while the signature
\* request is with the first wallet.
InitPermitRace ==
    /\ RegistryReady /\ variant \in {"v10", "v12"} /\ ConnConnectedSecondPending
    /\ PermitInit /\ PricesIdle /\ SelectIdle /\ BatchIdle

NextPermitRace ==
    \/ NextPermit
    \/ /\ permitPc \in {"awaitNonce", "awaitVersion", "awaitSignature", "awaitRelay"}
       /\ \/ permitPc # "awaitSignature" /\ AccountsResponse(2)
          \/ AddressResponse(2)
       /\ UNCHANGED <<permitVars, priceVars, selVars, batchVars>>

SpecPermitRace == InitPermitRace /\ [][NextPermitRace]_vars

\* The scan of the v1.2 variant, awaited by _handlePaymentClick.
InitSelectV12 ==
    /\ RegistryReady /\ variant = "v12" /\ ConnConnected /\ PermitIdle
    /\ PricesIdle /\ SelectIdle /\ BatchIdle

NextSelectV12 ==
    /\ \/ FindHighestStart
       \/ BalancesResponse
       \/ ChecksLoopV12
    /\ UNCHANGED <<regVars, connVars, permitVars, batchVars>>
    /\ UNCHANGED <<configChainId, clockMs, ticks, priceCall, earlierCall>>

SpecSelectV12 == InitSelectV12 /\ [][NextSelectV12]_vars

\* One attempt of either kind: the permit flow of the rpc, v1.0 and v1.2
\* variants, or the batch flow of the eip variant.
InitAttempt == InitPermit \/ InitBatch

NextAttempt ==
    \/ variant \in PermitVariants /\ NextPermit
    \/ variant = "eip" /\ NextBatch

SpecAttempt == InitAttempt /\ [][NextAttempt]_vars

(***************************************************************************)
(* C10: after any sequence of provider announcements, duplicates and any   *)
(* ordering included, the size of the registry's visible set (the map and  *)
(* the rendered wallet list) equals the number of distinct provider ids    *)
(* announced.                                                              *)
(***************************************************************************)
C10_VisibleSizeIsDistinctIds ==
    /\ MapSize(discoveredProviders) = Cardinality(announcedIds)
    /\ Len(walletList) = Cardinality(announcedIds)
    /\ Range(walletList) = announcedIds

\* Reached: three distinct ids announced, one of them re-announced with a
\* different detail, while two listeners are registered.
C10_Witness ==
    /\ Cardinality(announcedIds) = 3
    /\ announceListeners = 2
    /\ renderCount = 3

(***************************************************************************)
(* C1: connect() resolves true if and only if a provider was selected and  *)
(* address retrieval succeeded, and false on every cancellation path, for  *)
(* every timing of the 300 ms modal-close timer relative to the wallet's   *)
(* account response.  As a state predicate: a promise resolved true means  *)
(* an address was retrieved, and no promise is resolved false when the     *)
(* provider selected for it went on to deliver the address.                *)
(***************************************************************************)
SelSucceeded(s) ==
    sels[s].pc \in {"awaitNetwork", "executeSend", "connected", "switchNetwork",
                    "flowEnded"}

C1_ConnectTrueIffAddressRetrieved ==
    \A p \in 1..Len(promises) :
        /\ promises[p] = "true" => currentUserAddress # NULL
        /\ promises[p] = "false" =>
              ~ \E s \in 1..Len(sels) : sels[s].conn = p /\ SelSucceeded(s)

(***************************************************************************)
(* C2: for every typed-data signing request passing through the            *)
(* interceptor: if the request's domain name matches the denylist, the     *)
(* wallet's original signing function is never invoked and the call fails  *)
(* with the blocked-policy error; otherwise the original arguments are     *)
(* forwarded unmodified, once, and the wallet's signature is returned      *)
(* unmodified.                                                             *)
(***************************************************************************)
C2_InterceptorPolicy ==
    (variant = "rpc" /\ signArgs # << >>) =>
        IF signArgs[1].name = DeniedDomainName
        THEN /\ Forwarded(sigLog) = {}
             /\ walletSig = << >>
             /\ permitPc = "failed"
             /\ thrown = <<BlockedMessage>>
        ELSE /\ Cardinality(Forwarded(sigLog)) = 1
             /\ \A i \in Forwarded(sigLog) : sigLog[i].args = signArgs
             /\ thrown # <<BlockedMessage>>
             /\ walletSig # << >> =>
                   /\ signResult = walletSig
                   /\ walletSig[1] = WalletSign(signer, signArgs)

\* Reached: a request for the denylisted domain name was blocked.
C2_Witness ==
    /\ variant = "rpc"
    /\ signArgs # << >>
    /\ signArgs[1].name = DeniedDomainName
    /\ thrown = <<BlockedMessage>>

(***************************************************************************)
(* C3: for every signing request, blocked or accepted, the broadcast of    *)
(* the request's domain/types/message happens before the policy decision   *)
(* and before any forwarding to the wallet: no request is blocked or       *)
(* forwarded without having been broadcast first.                          *)
(***************************************************************************)
C3_BroadcastBeforeDecision ==
    variant = "rpc" =>
        \A i \in 1..Len(sigLog) :
            sigLog[i].type \in {"blocked", "forward"} =>
                \E j \in 1..(i - 1) :
                    /\ sigLog[j].type = "broadcast"
                    /\ sigLog[j].args = signArgs

\* Reached: an accepted request was broadcast, forwarded and signed.
C3_Witness ==
    /\ variant = "rpc"
    /\ walletSig # << >>
    /\ Len(sigLog) = 2
    /\ sigLog[1].type = "broadcast"
    /\ sigLog[2].type = "forward"

(***************************************************************************)
(* C6: the EIP-712 domain built by the permit signer contains version "1"  *)
(* whenever the token's version() call fails and exactly the returned      *)
(* string whenever it succeeds; a version() failure never aborts signing   *)
(* (the signing request is still made).                                    *)
(***************************************************************************)
C6_DomainVersion ==
    /\ signArgs # << >> =>
          signArgs[1].version = (IF versionResult = "fail" THEN "1" ELSE versionResult)
    /\ versionResult = "fail" => (signArgs # << >> /\ sigLog # << >>)

\* Reached: version() failed and the wallet signed a domain with version "1".
C6_Witness ==
    /\ versionResult = "fail"
    /\ walletSig # << >>
    /\ walletSig[1].domain.version = "1"

(***************************************************************************)
(* C7: the relay client treats a non-success HTTP status, a JSON-RPC error *)
(* object and an application-level success:false field each as a relay     *)
(* failure: the flow ends in an error and the success status is never      *)
(* shown.                                                                  *)
(***************************************************************************)
RelayRejected(resp) ==
    \/ ~resp.ok
    \/ /\ resp.body.json
       /\ \/ resp.body.error # Absent
          \/ resp.body.success = "false"
          \/ resp.body.result.present /\ resp.body.result.success = "false"

C7_RelayFailureIsError ==
    (relayResponse # << >> /\ RelayRejected(relayResponse[1])) =>
        /\ permitPc = "failed"
        /\ thrown # << >>
        /\ statusLog[Len(statusLog)] = "error"
        /\ "success" \notin Range(statusLog)

\* Reached: a non-success HTTP status whose body reports success.
C7_Witness ==
    /\ relayResponse # << >>
    /\ ~relayResponse[1].ok
    /\ relayResponse[1].body.json
    /\ relayResponse[1].body.result.success = "true"
    /\ permitPc = "failed"

(***************************************************************************)
(* C8: when the backend rejects a relay request and supplies a message     *)
(* (HTTP 200 with {success:false, message}, or a non-success status whose  *)
(* body has a message but no result object), the error the caller receives *)
(* carries exactly that server-supplied message.                           *)
(***************************************************************************)
SuppliedMessage(v, body) ==
    IF ~body.json THEN Absent
    ELSE IF body.message # Absent THEN body.message
    ELSE IF v = "rpc" /\ body.error \notin {Absent, "noMessage"} THEN body.error
    ELSE IF v = "rpc" /\ body.result.present THEN body.result.message
    ELSE Absent

C8_RelayErrorCarriesServerMessage ==
    ( /\ relayResponse # << >>
      /\ RelayRejected(relayResponse[1])
      /\ SuppliedMessage(variant, relayResponse[1].body) # Absent ) =>
        thrown = << SuppliedMessage(variant, relayResponse[1].body) >>

(***************************************************************************)
(* C4: price cache TTL.  For an address whose cached price carries the     *)
(* time T (the time of the call that fetched it), a _fetchTokenPrices call *)
(* at time T+d issues no request for the address and returns the cached    *)
(* value iff d < 5 minutes, and issues a request for it iff d >= 5         *)
(* minutes; a call whose addresses are all fresh hits issues no request.   *)
(***************************************************************************)
C4_PriceCacheTtl ==
    LET call == priceCall
        requested == {r.address : r \in Range(call.requests)}
        Cached(a) == ToLowerCase(a) \in DOMAIN call.seen
        Age(a) == call.now - call.seen[ToLowerCase(a)].timestamp
    IN  call.pc # "notCalled" =>
          /\ \A a \in Range(call.tokenAddresses) :
                Cached(a) =>
                   /\ (Age(a) < 5 * 60 * 1000) <=> (a \notin requested)
                   /\ (Age(a) >= 5 * 60 * 1000) <=> (a \in requested)
                   /\ (Age(a) < 5 * 60 * 1000 /\ call.pc = "returned") =>
                         /\ ToLowerCase(a) \in DOMAIN call.result
                         /\ call.result[ToLowerCase(a)] =
                               call.seen[ToLowerCase(a)].price
          /\ (\A a \in Range(call.tokenAddresses) :
                 Cached(a) /\ Age(a) < 5 * 60 * 1000)
                => call.requests = << >>

\* Reached: one call finds the price of 0xaa cached 5 min - 1 ms ago and the
\* price of 0xbb cached 5 min ago; it requests 0xBb alone and returns the
\* cached price of 0xaa beside the new price of 0xbb.
C4_Witness ==
    /\ priceCall.pc = "returned"
    /\ priceCall.tokenAddresses = <<"0xAa", "0xBb">>
    /\ DOMAIN priceCall.seen = {"0xaa", "0xbb"}
    /\ priceCall.now - priceCall.seen["0xaa"].timestamp = 5 * 60 * 1000 - 1
    /\ priceCall.now - priceCall.seen["0xbb"].timestamp = 5 * 60 * 1000
    /\ priceCall.requests = <<[platform |-> "ethereum", address |-> "0xBb"]>>
    /\ priceCall.seen["0xaa"].price = [usd |-> 2]
    /\ priceCall.seen["0xbb"].price = [usd |-> 2]
    /\ priceCall.result = [k \in {"0xaa", "0xbb"} |->
                              IF k = "0xaa" THEN [usd |-> 2] ELSE [usd |-> 1]]

(***************************************************************************)
(* C5: with more than one compatible asset, each with a price, the         *)
(* selector returns the asset with the strictly greatest usdValue =        *)
(* humanReadableBalance x price, not the greatest raw balance; on ties the *)
(* earliest-found asset is kept ([A: $10, B: $25, C: $25] yields B).       *)
(***************************************************************************)
C5_SelectsGreatestUsdValue ==
    LET tokens == compatibleTokens
        Priced(i) == PriceData(prices[1], tokens[i]) # << >>
        Value(i) == UsdValueTenths(tokens[i], PriceData(prices[1], tokens[i])[1].usd)
        FirstMax(i) == /\ \A j \in 1..Len(tokens) : Value(j) <= Value(i)
                       /\ \A j \in 1..(i - 1) : Value(j) < Value(i)
    IN  (/\ selPc = "returned"
         /\ Len(tokens) > 1
         /\ \A i \in 1..Len(tokens) : Priced(i))
        => \E i \in 1..Len(tokens) :
              /\ FirstMax(i)
              /\ selResult[1].tokenData = tokens[i]
              /\ selResult[1].usdValue = Value(i)

(***************************************************************************)
(* C9: the submitted atomic batch contains exactly one call per asset      *)
(* whose amount is positive after gas reservation and no call for any      *)
(* other asset; the native amount is the balance less the estimated fee    *)
(* (the whole balance when fee estimation failed).  With three assets of   *)
(* which one has zero balance, exactly two calls are submitted.            *)
(***************************************************************************)
C9_OneCallPerPositiveAsset ==
    \A k \in 1..Len(sentCalls) :
        LET calls == sentCalls[k].calls
            positive == {i \in 1..Len(assets) : assets[i].balance > 0}
            native == {i \in 1..Len(assets) : assets[i].type = "ETH"}
            reserved == IF feeOutcome = << >> THEN 0
                        ELSE IF feeOutcome[1].failed THEN ethBalance
                        ELSE IF ethBalance > feeOutcome[1].estimatedFee
                        THEN ethBalance - feeOutcome[1].estimatedFee ELSE 0
        IN  /\ Len(calls) = Cardinality(positive)
            /\ \A i \in positive :
                  Cardinality({c \in 1..Len(calls) :
                                  calls[c] = CallFor(assets[i], depositResponse[1].contractAddress)}) = 1
            /\ \A c \in 1..Len(calls) :
                  \E i \in positive : calls[c] = CallFor(assets[i], depositResponse[1].contractAddress)
            /\ (native # {}) <=> (reserved > 0)
            /\ \A i \in native : assets[i].balance = reserved

\* Reached: three assets found, the native currency with its fee reserved,
\* a token with a zero balance and a token with a positive balance; the batch
\* submitted has two calls.
C9_Witness ==
    /\ Len(sentCalls) = 1
    /\ Len(assets) = 3
    /\ assets[1].type = "ETH"
    /\ ethBalance = 300001
    /\ feeOutcome = <<[failed |-> FALSE, estimatedFee |-> 300000]>>
    /\ assets[1].balance = 1
    /\ assets[2].balance = 0
    /\ assets[3].balance = 10
    /\ Len(sentCalls[1].calls) = 2
    /\ batchPc = "done"

(***************************************************************************)
(* C11: the provider registry is append-only.  No step removes or changes  *)
(* an entry, and a step that adds no entry (a re-announcement of a known   *)
(* id among them) leaves the stored details, the rendered list and the     *)
(* number of observer notifications (renders) unchanged.                   *)
(***************************************************************************)
C11_RegistryAppendOnly ==
    [][ /\ Len(discoveredProviders') >= Len(discoveredProviders)
        /\ \A i \in 1..Len(discoveredProviders) :
              discoveredProviders'[i] = discoveredProviders[i]
        /\ (lastAnnounce' # << >> /\ lastAnnounce'[1].rdns \in announcedIds) =>
              /\ discoveredProviders' = discoveredProviders
              /\ walletList' = walletList
              /\ renderCount' = renderCount ]_vars

\* Reached: io.metamask is stored with the detail announced first (handleA)
\* after it was announced again with another detail (handleB), and there
\* were as many renders as entries.
C11_Witness ==
    /\ lastAnnounce = <<[rdns |-> "io.metamask", provider |-> "handleB"]>>
    /\ MapHas(discoveredProviders, "io.metamask")
    /\ MapGet(discoveredProviders, "io.metamask").provider = "handleA"
    /\ MapSize(discoveredProviders) = 2
    /\ renderCount = 2

(***************************************************************************)
(* C12: across any sequence of init() calls in a session, overlapping      *)
(* calls included, the discovery-request broadcast is emitted at most once *)
(* and the announcement listener is registered at most once (exactly once  *)
(* when the session is initialized).                                       *)
(***************************************************************************)
C12_DiscoverySetUpOnce ==
    /\ requestBroadcasts <= 1
    /\ announceListeners <= 1
    /\ isInitialized => (requestBroadcasts = 1 /\ announceListeners = 1)

(***************************************************************************)
(* C13: at most one connect() is in flight.  A pay-button click while a    *)
(* connect is awaiting selection or connecting starts no second connect    *)
(* and leaves the stored resolver of the first: at most one connection     *)
(* promise is pending at any time.                                         *)
(***************************************************************************)
C13_OneConnectInFlight ==
    Cardinality({p \in 1..Len(promises) : promises[p] = "pending"}) <= 1

(***************************************************************************)
(* C14: at most one payment flow is active at a time.  A pay-button click  *)
(* or provider selection arriving while a flow is in progress starts no    *)
(* second flow beside it.                                                  *)
(***************************************************************************)
FlowsInProgress ==
    Cardinality({h \in 1..Len(clicks) : clicks[h].pc = "executeSend"})
        + Cardinality({s \in 1..Len(sels) : sels[s].pc = "executeSend"})

C14_OnePaymentFlow == FlowsInProgress <= 1

(***************************************************************************)
(* C15: on every path, the continuation after a successful connection      *)
(* included, a payment flow (signing, relay or wallet_sendCalls request)   *)
(* is started only by a handler that has verified the wallet's network     *)
(* equal to the configured chain id.                                       *)
(***************************************************************************)
FlowStarted(handler) == handler.pc \in {"executeSend", "flowEnded", "flowError"}

C15_FlowOnlyAfterNetworkCheck ==
    /\ \A h \in 1..Len(clicks) : FlowStarted(clicks[h]) => clicks[h].verified
    /\ \A s \in 1..Len(sels) : FlowStarted(sels[s]) => sels[s].verified

(***************************************************************************)
(* C16: once the session is connected (signer and address set), the        *)
(* provider, the signer and the address never change, whatever further     *)
(* provider-selection or pay-button clicks occur.                          *)
(***************************************************************************)
Connected == signer # NULL /\ currentUserAddress # NULL

C16_ConnectedSessionImmutable ==
    [][ Connected => /\ provider' = provider
                     /\ signer' = signer
                     /\ currentUserAddress' = currentUserAddress ]_vars

(***************************************************************************)
(* C17: when the scan yields zero compatible assets, the selector signals  *)
(* that no target was found (returns null), the attempt ends with a        *)
(* user-visible no-compatible-asset error, and no price lookup and no      *)
(* signing or relay request is made.                                       *)
(***************************************************************************)
C17_NoTargetEndsWithNoAssetError ==
    selPc = "returnedNull" =>
        /\ selResult = << >>
        /\ sendThrown = <<NoTargetMessage>>
        /\ sendStatus[Len(sendStatus)] = [text |-> NoTargetMessage, kind |-> "error"]
        /\ prices = << >>
        /\ priceCache = EmptyCache
        /\ sendPc = "thrown"

(***************************************************************************)
(* C18: when exactly one asset is compatible, the selector returns that    *)
(* asset with usdValue 0 and makes no price lookup.                        *)
(***************************************************************************)
C18_SingletonUnpriced ==
    (selPc = "returned" /\ Len(compatibleTokens) = 1) =>
        /\ selResult = <<[tokenData |-> compatibleTokens[1], usdValue |-> 0]>>
        /\ prices = << >>
        /\ priceCache = EmptyCache

\* Reached: three tokens passed the filter, one of them is compatible, with a
\* positive balance, and it was returned unpriced.
C18_Witness ==
    /\ selPc = "returned"
    /\ Len(nonZeroBalances) = 3
    /\ Len(compatibleTokens) = 1
    /\ compatibleTokens[1].contractAddress = "0xBb"
    /\ compatibleTokens[1].balance = 10
    /\ selResult[1].usdValue = 0
    /\ sendPc = "signing"

(***************************************************************************)
(* C19: with several compatible assets and no usable price for any of      *)
(* them (no entry, as for an unsupported chain or failed requests, or a    *)
(* zero price), the selector returns the first compatible asset with       *)
(* usdValue 0.                                                             *)
(***************************************************************************)
NoUsablePrice(priceMap, token) ==
    \/ PriceData(priceMap, token) = << >>
    \/ PriceData(priceMap, token)[1].usd = 0

C19_PricingFailureFallsBackToFirst ==
    (/\ selPc = "returned"
     /\ Len(compatibleTokens) > 1
     /\ \A i \in 1..Len(compatibleTokens) : NoUsablePrice(prices[1], compatibleTokens[i]))
    => selResult = <<[tokenData |-> compatibleTokens[1], usdValue |-> 0]>>

\* Reached: three compatible tokens with positive balances, the first
\* without a price entry, the second priced 0, the third without an entry;
\* the first was returned with value 0.
C19_Witness ==
    /\ selPc = "returned"
    /\ Len(compatibleTokens) = 3
    /\ \A i \in 1..3 : compatibleTokens[i].balance > 0
    /\ DOMAIN prices[1] = {"0xbb"}
    /\ prices[1]["0xbb"].usd = 0
    /\ selResult[1].tokenData.contractAddress = "0xAa"
    /\ selResult[1].usdValue = 0

(***************************************************************************)
(* C20: in a price lookup, the failure of one address's request (a         *)
(* non-success HTTP status or a network error) only leaves that address    *)
(* out: every price fetched for another address in the same call is        *)
(* returned and written to the cache.                                      *)
(***************************************************************************)
Fetched(resp) == resp.kind \in {"price", "noData"}

C20_FailedRequestOnlyOmitsItsAddress ==
    priceCall.pc = "returned" =>
        \A i \in 1..Len(priceCall.responses) :
            Fetched(priceCall.responses[i]) =>
                LET lower == ToLowerCase(priceCall.requests[i].address) IN
                /\ lower \in DOMAIN priceCall.result
                /\ lower \in DOMAIN priceCache
                /\ priceCache[lower].timestamp = priceCall.now

(***************************************************************************)
(* C21: the price cache is keyed case-insensitively: every key of the      *)
(* cache is a lowercased address, no two keys are spellings of one         *)
(* address, and a lookup returns the price of an address under its         *)
(* lowercased key whatever the spelling asked for, so two spellings get    *)
(* the same price under the same key.                                      *)
(***************************************************************************)
C21_CacheKeyedCaseInsensitively ==
    /\ DOMAIN priceCache \subseteq {"0xaa", "0xbb"}
    /\ priceCall.pc = "returned" =>
          /\ DOMAIN priceCall.result \subseteq {"0xaa", "0xbb"}
          /\ \A a \in Range(priceCall.tokenAddresses) :
                LET key == IF a \in {"0xAa", "0xaa"} THEN "0xaa" ELSE "0xbb" IN
                /\ (key \in DOMAIN priceCall.seen /\ Fresh(priceCall.now, priceCall.seen[key]))
                      => /\ key \in DOMAIN priceCall.result
                         /\ priceCall.result[key] = priceCall.seen[key].price
                /\ key \in DOMAIN priceCall.result =>
                      /\ key \in DOMAIN priceCache
                      /\ priceCache[key].price = priceCall.result[key]

\* Reached: one call asks for 0xAa and 0xaa, the requests answer with the
\* prices 1 and 2; the cache and the result hold the one key 0xaa with the
\* price written last.
C21_Witness ==
    /\ priceCall.pc = "returned"
    /\ priceCall.tokenAddresses = <<"0xAa", "0xaa">>
    /\ priceCall.responses = <<[kind |-> "price", usd |-> 1], [kind |-> "price", usd |-> 2]>>
    /\ DOMAIN priceCache = {"0xaa"}
    /\ priceCache["0xaa"].price = [usd |-> 2]
    /\ priceCall.result = [k \in {"0xaa"} |-> [usd |-> 2]]

(***************************************************************************)
(* C22: a failure during permit signing (the nonce read fails, the user    *)
(* declines the signature, the policy blocks the request) reaches the      *)
(* caller as one error, shown once, and no request was sent to the relay   *)
(* endpoint; a relay request is only ever sent with a signature.           *)
(***************************************************************************)
C22_SigningFailureSendsNothing ==
    /\ relayRequests # << >> => (walletSig # << >> /\ signResult # << >>)
    /\ (permitPc = "failed" /\ signResult = << >>) =>
          /\ thrown \in {<<NonceFailedMessage>>, <<UserRejectedMessage>>, <<BlockedMessage>>}
          /\ Cardinality({i \in 1..Len(statusLog) : statusLog[i] = "error"}) = 1
          /\ statusLog[Len(statusLog)] = "error"
          /\ relayRequests = << >>
          /\ relayResponse = << >>

\* Reached: the nonce was read, the request reached the wallet, and the user
\* declined.
C22_Witness ==
    /\ permitPc = "failed"
    /\ nonceRead = <<7>>
    /\ Forwarded(sigLog) # {}
    /\ walletSig = << >>
    /\ thrown = <<UserRejectedMessage>>
    /\ relayRequests = << >>

(***************************************************************************)
(* C23: the nonce in the Permit message that is signed is the value the    *)
(* token answered to nonces(owner) within the signing operation: the read  *)
(* precedes the building of the message and the signature request, and     *)
(* the message, the request forwarded to the wallet and the signature all  *)
(* carry that value.                                                       *)
(***************************************************************************)
C23_NonceReadAtSigningTime ==
    /\ permitPc \in {"ready", "awaitNonce"} =>
          (nonceRead = << >> /\ signArgs = << >> /\ sigLog = << >>)
    /\ signArgs # << >> =>
          /\ nonceRead # << >>
          /\ signArgs[3].nonce = nonceRead[1]
          /\ \A i \in Forwarded(sigLog) : sigLog[i].args[3].nonce = nonceRead[1]
    /\ walletSig # << >> => walletSig[1].message.nonce = nonceRead[1]

\* Reached: the token answered nonce 7 and the wallet signed a message
\* carrying 7.
C23_Witness ==
    /\ nonceRead = <<7>>
    /\ walletSig # << >>
    /\ walletSig[1].message.nonce = 7
    /\ relayRequests # << >>

(***************************************************************************)
(* C24: there are no automatic retries: within one attempt the relay       *)
(* endpoint receives at most one POST and the wallet at most one signing   *)
(* request or one batch request, and an attempt that failed takes no       *)
(* further step.                                                           *)
(***************************************************************************)
C24_NoAutomaticRetry ==
    [][ /\ Len(relayRequests') <= 1
        /\ Cardinality(Forwarded(sigLog')) <= 1
        /\ Len(sentCalls') <= 1
        /\ permitPc = "failed" => UNCHANGED permitVars
        /\ batchPc = "thrown" => UNCHANGED batchVars ]_vars

\* Reached: the one POST of the attempt failed and the attempt ended with the
\* error, one signature request and one POST made.
C24_Witness ==
    /\ permitPc = "failed"
    /\ thrown = <<FetchFailedMessage>>
    /\ Len(relayRequests) = 1
    /\ Cardinality(Forwarded(sigLog)) = 1

(***************************************************************************)
(* C25: in the batch scan, when the fee data was obtained the native asset *)
(* is included with balance minus the estimated fee (gas price x 300000),  *)
(* a strictly positive amount, and left out when the balance does not      *)
(* exceed the fee; the whole balance is included only when the fee data    *)
(* request failed.                                                         *)
(***************************************************************************)
C25_NativeAmountReservesFee ==
    LET native == SelectSeq(assets, LAMBDA a : a.type = "ETH") IN
    /\ Len(native) <= 1
    /\ feeOutcome = << >> => native = << >>
    /\ feeOutcome # << >> =>
          LET fee == feeOutcome[1].estimatedFee IN
          IF feeOutcome[1].failed
          THEN native = <<EthAsset(ethBalance)>>
          ELSE /\ fee \in {1 * 300000, 2 * 300000, 20 * 300000}
               /\ ethBalance > fee =>
                     /\ Len(native) = 1
                     /\ native[1].balance = ethBalance - fee
                     /\ native[1].balance > 0
                     /\ native[1].balance < ethBalance
               /\ ethBalance <= fee => native = << >>

\* Reached: balance 300001 with a gas price of 1 leaves 1 to deposit, and the
\* request sent to the wallet carries it.
C25_Witness ==
    /\ ethBalance = 300001
    /\ feeOutcome = <<[failed |-> FALSE, estimatedFee |-> 300000]>>
    /\ assets # << >>
    /\ assets[1] = EthAsset(1)
    /\ Len(sentCalls) = 1

C27_UserRejectionIsCancellation ==
    batchThrown = <<WalletCallsError(UserRejectedCode)>> =>
        /\ batchStatus[Len(batchStatus)] # "error"
        /\ CaughtStatus(caller, batchThrown[1]).text # ConnectionFailedStatus

(***************************************************************************)
(* C28: a batch flow hands all of its calls to the wallet in exactly one   *)
(* wallet_sendCalls request, marked atomicRequired, never in several       *)
(* requests.                                                               *)
(***************************************************************************)
C28_OneAtomicRequest ==
    /\ Len(sentCalls) <= 1
    /\ batchPc \in {"awaitWallet", "done"} => Len(sentCalls) = 1
    /\ \A k \in 1..Len(sentCalls) :
          /\ sentCalls[k].atomicRequired = TRUE
          /\ sentCalls[k].from = currentUserAddress
          /\ Len(sentCalls[k].calls) =
                Cardinality({i \in 1..Len(assets) : assets[i].balance > 0})

\* Reached: the native currency and two tokens went to the wallet as the
\* three calls of one request, which the wallet accepted.
C28_Witness ==
    /\ batchPc = "done"
    /\ Len(sentCalls) = 1
    /\ Len(sentCalls[1].calls) = 3
    /\ sentCalls[1].atomicRequired = TRUE
    /\ sentCalls[1].calls[1].to = DepositoryAddress
    /\ sentCalls[1].calls[2].to = "0xAa"
    /\ sentCalls[1].calls[3].to = "0xBb"

(***************************************************************************)
(* C29: every asset the scanner hands to signing has a nonzero balance,    *)
(* also when the balance read from the token contract is zero although     *)
(* the indexing backend listed the token.                                  *)
(***************************************************************************)
C29_SignedAssetHasBalance ==
    sendPc = "signing" => selResult[1].tokenData.balance > 0

(***************************************************************************)
(* C30: a failed attempt leaves no half-initialized state: after a         *)
(* connection that failed (the wallet's account or address request was     *)
(* rejected, no address was retrieved) provider, signer and address are    *)
(* all unset, so that the next pay-button click starts with a connection.  *)
(***************************************************************************)
C30_FailedConnectionLeavesNothing ==
    (/\ Len(sels) = 1
     /\ sels[1].pc = "failed"
     /\ currentUserAddress = NULL)
    => /\ provider = NULL
       /\ signer = NULL
       /\ \A h \in 1..Len(clicks) :
             clicks[h].pc \in {"awaitConnect", "cancelled", "done"}

(***************************************************************************)
(* C31: in the scan of the permit pipeline a failure in the branch of one  *)
(* token (one of its reads name(), symbol(), balanceOf(), decimals()       *)
(* rejecting) does not cancel the branches of the others: every token      *)
(* whose probe and reads succeeded is still returned as a candidate.       *)
(***************************************************************************)
C31_BranchFailureKeepsSiblings ==
    checkReads # << >> =>
        \A i \in 1..Len(checkReads) :
            (checkReads[i].supportsPermit /\ ~checkReads[i].readFails) =>
                /\ selPc # "thrown"
                /\ \E j \in 1..Len(compatibleTokens) :
                      compatibleTokens[j].contractAddress = nonZeroBalances[i].contractAddress

(***************************************************************************)
(* C32: whenever the selector returns the first compatible asset because   *)
(* no candidate had a usable price, the fallback is observable: a warning  *)
(* (or error) was written to the console in that execution.                *)
(***************************************************************************)
C32_FallbackIsObservable ==
    (/\ selPc = "returned"
     /\ Len(compatibleTokens) > 1
     /\ \A i \in 1..Len(compatibleTokens) : NoUsablePrice(prices[1], compatibleTokens[i]))
    => consoleLog # << >>

(***************************************************************************)
(* C33: in the v1.2 variant the selector returns the permit-compatible     *)
(* token with the highest balance among all compatible tokens the wallet   *)
(* holds.                                                                  *)
(***************************************************************************)
C33_V12ReturnsHighestBalance ==
    selPc = "returned" =>
        \A i \in 1..Len(checkReads) :
            (checkReads[i].supportsPermit /\ ~checkReads[i].readFails) =>
                selResult[1].balance >= checkReads[i].balance

(***************************************************************************)
(* C34: once the connect() of a click has resolved false and the           *)
(* cancellation has been reported, no payment flow (signing, relay or      *)
(* batch request) is started until the pay button is clicked again, also   *)
(* when the wallet's answer for the earlier selection arrives later and    *)
(* succeeds.                                                               *)
(***************************************************************************)
C34_NoFlowAfterCancellation ==
    (Len(clicks) = 1 /\ clicks[1].pc = "cancelled") =>
        \A s \in 1..Len(sels) : ~FlowStarted(sels[s])

(***************************************************************************)
(* C35: in every reachable state a set signer implies a set user address,  *)
(* and no pay-button click runs the network check or the payment flow      *)
(* while the address is unset.                                             *)
(***************************************************************************)
C35_SignerImpliesAddress ==
    /\ signer # NULL => currentUserAddress # NULL
    /\ currentUserAddress = NULL =>
          \A h \in 1..Len(clicks) :
              clicks[h].pc \notin {"awaitNetwork", "executeSend"}

(***************************************************************************)
(* C36: the relay request agrees with the signed permit: its owner,        *)
(* contractAddress, value and deadline are the owner, verifyingContract,   *)
(* value and deadline of the message whose signature it carries, and its   *)
(* chainId is the chainId of the domain.                                   *)
(***************************************************************************)
C36_RelayRequestMatchesPermit ==
    \A k \in 1..Len(relayRequests) :
        LET body == relayRequests[k].params
            signed == body.vrs
        IN  /\ body.owner = signed.message.owner
            /\ body.contractAddress = signed.domain.verifyingContract
            /\ body.value = signed.message.value
            /\ body.deadline = signed.message.deadline
            /\ body.chainId = signed.domain.chainId

(***************************************************************************)
(* C37: one pay-button click that led to one successful provider           *)
(* selection on the expected network has started the payment flow exactly  *)
(* once: not zero times, and not once from each of the two handlers.       *)
(***************************************************************************)
FlowsStartedBy(handlers) ==
    Cardinality({h \in 1..Len(handlers) : FlowStarted(handlers[h])})

OneClickOneSelectionSettled ==
    /\ Len(clicks) = 1 /\ Len(sels) = 1
    /\ signer # NULL /\ currentUserAddress # NULL
    /\ sels[1].pc \in {"connected", "executeSend", "flowEnded"}
    /\ clicks[1].pc \in {"cancelled", "done", "executeSend", "flowEnded", "flowError"}

C37_FlowStartsExactlyOnce ==
    OneClickOneSelectionSettled =>
        FlowsStartedBy(clicks) + FlowsStartedBy(sels) = 1

(***************************************************************************)
(* C38: the cached timestamp of an address never decreases, also when      *)
(* calls of getPrices overlap: a call that started earlier and completes   *)
(* later does not replace a newer entry with its own older start time.     *)
(***************************************************************************)
TimestampsKept ==
    \A k \in DOMAIN priceCache :
        /\ k \in DOMAIN priceCache'
        /\ priceCache'[k].timestamp >= priceCache[k].timestamp

C38_CachedTimestampNeverDecreases == [][TimestampsKept]_vars

(***************************************************************************)
(* C39: every promise returned by connect() is resolved once the user has  *)
(* selected a provider or closed the modal and the handlers this started   *)
(* have run (the close timer has fired, the wallet has answered): no       *)
(* promise stays pending, also when the pay button was clicked again       *)
(* while the modal was open.                                               *)
(***************************************************************************)
ModalInteractionOver ==
    /\ ~overlayDisplayed
    /\ closeTimers = 0
    /\ \A s \in 1..Len(sels) : sels[s].pc \notin {"awaitAccounts", "awaitAddress"}

C39_NoConnectLeftPending ==
    ModalInteractionOver => \A p \in 1..Len(promises) : promises[p] # "pending"

(***************************************************************************)
(* C40: in the batch flow a wallet_sendCalls request is issued only after  *)
(* the backend answered the deposit request with success and a defined     *)
(* contractAddress; when the request failed, or the answer is success      *)
(* false, or success without a contractAddress, nothing is submitted to    *)
(* the wallet.                                                             *)
(***************************************************************************)
C40_NoCallsWithoutDepository ==
    sentCalls # << >> =>
        /\ depositResponse # << >>
        /\ depositResponse[1].kind = "json"
        /\ depositResponse[1].success
        /\ depositResponse[1].contractAddress # UNDEFINED

====
